---- MODULE Spec2Model ----
(***************************************************************************)
(* The gossip node of simcl2/node_asyncio.py: one Node servicer running on *)
(* one asyncio event loop.  Every coroutine runs without interruption from *)
(* one await to the next, so each action below is one such run:            *)
(*   - the two RPC handlers (SendMessage, UpdateNeighbors) contain no      *)
(*     await and are one action each;                                      *)
(*   - gossip_message runs its whole for-loop before its first await;      *)
(*   - _send_gossip_to_peer suspends at the semaphore (when it is locked), *)
(*     at asyncio.sleep and at the outbound stub call.                     *)
(* Spec is the RPC surface of one node (the handlers and the start of each *)
(* fan-out) on the wider inputs; SpecRelay is the whole node, relay tasks  *)
(* included, on fewer inputs; SpecStart is SpecRelay started on every kind *)
(* of store.  SpecNet is a network of such nodes with fixed tables and one *)
(* triggered broadcast, FairSpecNet the same network when every call       *)
(* succeeds and every step that can be taken is taken.  SpecClock is one   *)
(* accepted SendMessage call on a node whose relay tasks read the clock.   *)
(* SpecPush is the node with the control plane's two-phase update of its   *)
(* pod (prepare.py, prepare_new.py).  SpecRetry is one call of the control *)
(* plane's run_command_with_retry, SpecBatch one call of its               *)
(* update_all_pods, SpecOrch one run of an orchestrator's main.            *)
(***************************************************************************)
EXTENDS Integers, Sequences, FiniteSets, TLC

VARIABLES
    susceptible_nodes,     \* Node.susceptible_nodes: list of (pod_ip, weight)
    received_message_ids,  \* Node.received_message_ids: set of message ids
    semaphore,             \* Node.semaphore: number of free slots
    ned_db,                \* the sqlite file ned.db
    requests,              \* inbound RPCs accepted by the server, handler not yet run
    ncalls,                \* number of inbound RPCs accepted so far
    log,                   \* lines printed on stdout, oldest first
    acks,                  \* Acknowledgments returned, in the order the handlers ran
    gossip_tasks,          \* the gossip_message tasks created, in creation order
    send_tasks,            \* the _send_gossip_to_peer tasks created, in creation order
    outbox,                \* GossipMessage requests issued to peers
    clock,                 \* the node's clock (time.time_ns), in milliseconds
    \* A network of Node processes, each on its own event loop (SpecNet):
    net_tables,            \* per node: susceptible_nodes
    net_seen,              \* per node: received_message_ids
    net_sem,               \* per node: free slots of the semaphore
    net_log,               \* per node: the events printed, oldest first
    net_gossip,            \* per node: its gossip_message tasks, in creation order
    net_send,              \* per node: its _send_gossip_to_peer tasks, in creation order
    net_trigger,           \* number of self-addressed trigger calls made so far
    \* The control plane (prepare.py, prepare_new.py), SpecPush:
    plane,                 \* how far the update of this pod has come, and its list
    retry,                 \* one call of run_command_with_retry (SpecRetry)
    batch,                 \* one call of update_all_pods (SpecBatch)
    orch                   \* one run of the orchestrator's main (SpecOrch)

nodevars == <<susceptible_nodes, received_message_ids, semaphore, ned_db, requests,
              ncalls, log, acks, gossip_tasks, send_tasks, outbox, clock>>

netvars == <<net_tables, net_seen, net_sem, net_log, net_gossip, net_send,
             net_trigger>>

ctlvars == <<retry, batch, orch>>

vars == <<nodevars, netvars, plane, ctlvars>>

----------------------------------------------------------------------------
(* Bounds of the model and the input domains. *)

\* Number of inbound RPCs the server accepts in one run.
MaxCalls == 3

\* Number of inbound RPCs accepted in one run of the whole node (SpecRelay).
MaxRelayCalls == 2

\* Capacity of the limiter in the model (the source sets 125, line 12).
SlotCap == 2

\* Largest `retries` run_command_with_retry is called with in the model (the
\* sources pass 5 and 3).
MaxRetries == 3

\* Largest node count of a topology file, and the number of topology files
\* the orchestrator finds, in the model.
MaxNodes == 2

MaxFiles == 2

MAX_CONCURRENT_SENDS == SlotCap

\* self.host, the node's own address.
host == "X"

\* Addresses of the other nodes.
PeerAddrs == {"A", "B"}

Addrs == {host} \cup PeerAddrs

Messages == {"m1", "m2"}

\* The Neighbor messages of an UpdateNeighbors request.
EA == [pod_ip |-> "A", weight |-> 10]
EB == [pod_ip |-> "B", weight |-> 20]
EX == [pod_ip |-> host, weight |-> 10]

\* Edge lists an UpdateNeighbors request may carry: empty, one peer, two
\* peers, one peer twice, and a list naming the node itself.
NeighborLists == {<<>>, <<EA>>, <<EA, EB>>, <<EA, EA>>, <<EX, EA>>}

\* The nodes of the network; the trigger is given to node host.
NetNodes == {host, "Y", "Z"}

\* The message of the broadcast.
NetMessage == "m1"

\* The table of a node whose neighbors are the nodes of S: one edge per
\* neighbor, the weight fixed by the neighbor.
NetTable(S) ==
    SelectSeq(<<<<host, 10>>, <<"Y", 10>>, <<"Z", 20>>>>, LAMBDA e : e[1] \in S)

\* The neighbor sets a node of the network may be given.
NetNeighbors(n) ==
    IF n = host THEN {{"Y"}, {"Y", "Z"}, {host, "Y"}}
    ELSE IF n = "Y" THEN {{}, {"Z"}, {host, "Z"}, {"Y", "Z"}}
    ELSE {{}, {host}, {"Y"}, {host, "Y"}}

\* The directed graphs the network is run on: chains, cycles through the
\* trigger node, nodes that cannot be reached, nodes reached on two paths,
\* and tables that list their own node.
NetGraphs ==
    {[n \in NetNodes |-> NetTable(f[n])] :
        f \in {h \in [NetNodes -> SUBSET NetNodes] :
                  \A n \in NetNodes : h[n] \in NetNeighbors(n)}}

----------------------------------------------------------------------------
(* Helpers *)

Last(s) == s[Len(s)]

\* The peer addresses of an edge list.
PeerSet(edges) == {edges[i][1] : i \in DOMAIN edges}

\* An edge list names some pod_ip twice.
HasDuplicatePeer(edges) ==
    \E i, j \in DOMAIN edges : i # j /\ edges[i][1] = edges[j][1]

----------------------------------------------------------------------------
(* The durable store ned.db: whether the file exists, whether its bytes    *)
(* are damaged (sqlite raises "file is not a database" on the first        *)
(* statement), whether it holds a NEIGHBORS table, and the table's rows    *)
(* (pod_ip TEXT PRIMARY KEY, weight REAL) in rowid order.                  *)

AbsentDb == [file |-> FALSE, corrupt |-> FALSE, table |-> FALSE, rows |-> <<>>]

\* One row of NEIGHBORS made from one (pod_ip, weight) tuple.
RowOf(edge) == [pod_ip |-> edge[1], weight |-> edge[2]]

\* Mutant: pod_ip is no PRIMARY KEY, every row is inserted.
RECURSIVE executemany_NoKey(_, _)
executemany_NoKey(rows, edges) ==
    IF edges = <<>> THEN [ok |-> TRUE, rows |-> rows]
    ELSE executemany_NoKey(Append(rows, RowOf(Head(edges))), Tail(edges))

\* conn.executemany('INSERT INTO NEIGHBORS VALUES (?, ?)', edges): the rows are
\* inserted in order; a pod_ip already in the table violates the PRIMARY KEY
\* and raises.
RECURSIVE executemany(_, _)
executemany(rows, edges) ==
    IF edges = <<>> THEN [ok |-> TRUE, rows |-> rows]
    ELSE IF \E i \in DOMAIN rows : rows[i].pod_ip = Head(edges)[1]
         THEN [ok |-> FALSE, rows |-> rows]
         ELSE executemany(Append(rows, RowOf(Head(edges))), Tail(edges))

\* Faults of the store during one UpdateNeighbors: none, or a statement of the
\* transaction raises (disk error, locked database).
Faults == {"none", "write"}

\* Mutant: the old table is not dropped (CREATE TABLE IF NOT EXISTS without
\* the DROP), so the inserts go on top of the old rows.
WriteNeighbors_NoDrop(db, edges, fault) ==
    LET ins == executemany(db.rows, edges) IN
        IF db.corrupt \/ fault = "write" \/ ~ins.ok
        THEN [ok |-> FALSE, db |-> [db EXCEPT !.file = TRUE]]
        ELSE [ok |-> TRUE,
              db |-> [file |-> TRUE, corrupt |-> FALSE, table |-> TRUE,
                      rows |-> ins.rows]]

\* The with-block of UpdateNeighbors: connect (creates the file), BEGIN, DROP
\* TABLE IF EXISTS, CREATE TABLE, executemany, commit.  An exception inside the
\* block rolls the transaction back, so the table is as before; on a damaged
\* file the first statement raises.
WriteNeighbors(db, edges, fault) ==
    LET ins == executemany(<<>>, edges) IN
        IF db.corrupt \/ fault = "write" \/ ~ins.ok
        THEN [ok |-> FALSE, db |-> [db EXCEPT !.file = TRUE]]
        ELSE [ok |-> TRUE,
              db |-> [file |-> TRUE, corrupt |-> FALSE, table |-> TRUE,
                      rows |-> ins.rows]]

\* Mutant: the rows are taken from any file that exists, no exception of the
\* SELECT ends the load.
get_neighbors_from_db_Unchecked(db) ==
    IF db.file
    THEN [i \in DOMAIN db.rows |-> <<db.rows[i].pod_ip, db.rows[i].weight>>]
    ELSE <<>>

\* get_neighbors_from_db: the rows as (pod_ip, weight) tuples when the file
\* exists and the SELECT succeeds; otherwise (no file, or the SELECT raises on
\* a damaged file or a missing table and the except branch prints the error)
\* susceptible_nodes keeps the [] that __init__ gave it.
get_neighbors_from_db(db) ==
    IF db.file /\ ~db.corrupt /\ db.table
    THEN [i \in DOMAIN db.rows |-> <<db.rows[i].pod_ip, db.rows[i].weight>>]
    ELSE <<>>

\* Mutant: only the first edge of the request is installed.
InstalledNeighbors_FirstOnly(neighbors) ==
    IF neighbors = <<>> THEN <<>>
    ELSE <<<<neighbors[1].pod_ip, neighbors[1].weight>>>>

\* Line 42: the request's Neighbor messages as (pod_ip, weight) tuples.
InstalledNeighbors(neighbors) ==
    [i \in DOMAIN neighbors |-> <<neighbors[i].pod_ip, neighbors[i].weight>>]

\* Stores a node may find at start: no file, or a table written earlier.
InitialStores ==
    {AbsentDb, WriteNeighbors(AbsentDb, <<<<"A", 10>>, <<"B", 20>>>>, "none").db}

\* A file that exists and holds no NEIGHBORS table.
NoTableDb == [AbsentDb EXCEPT !.file = TRUE]

\* The file of a store after its bytes were damaged.
Damaged(db) == [db EXCEPT !.corrupt = TRUE]

\* Every kind of store a node may find at start: the two of InitialStores, a
\* file without the table, a damaged file, an empty table, a table of one
\* peer.
StartStores ==
    InitialStores \cup
    {NoTableDb,
     Damaged(WriteNeighbors(AbsentDb, <<<<"A", 10>>, <<"B", 20>>>>, "none").db),
     WriteNeighbors(AbsentDb, <<>>, "none").db,
     WriteNeighbors(AbsentDb, <<<<"B", 20>>>>, "none").db}

----------------------------------------------------------------------------
(* stdout and the Acknowledgments *)

\* _log_event: one JSON line per message sighting.
Event(kind, message, sender_id, round_count) ==
    [event_type |-> kind, message |-> message, sender_id |-> sender_id,
     round_count |-> round_count]

\* The plain lines UpdateNeighbors prints: "refreshed" on success (line 52),
\* "update_error" in the except branch (line 56).
Marker(kind) == Event(kind, "", "", 0)

IsMarker(e) == e.event_type \in {"refreshed", "update_error"}

Ack(rpc, details) == [rpc |-> rpc, details |-> details]

----------------------------------------------------------------------------
(* Requests *)

SendMessageRequest(id, message, sender_id, round_count) ==
    [id |-> id, rpc |-> "SendMessage", message |-> message,
     sender_id |-> sender_id, round_count |-> round_count, neighbors |-> <<>>]

UpdateNeighborsRequest(id, neighbors) ==
    [id |-> id, rpc |-> "UpdateNeighbors", message |-> "", sender_id |-> "",
     round_count |-> 0, neighbors |-> neighbors]

\* The control plane has not touched the pod.
PlaneIdle == [phase |-> "idle", neighbors |-> <<>>, call |-> 0, wire |-> "none"]

\* The control scripts are not run in the specifications of the node.
CtlIdle ==
    /\ retry = [pc |-> "idle"]
    /\ batch = [pc |-> "idle"]
    /\ orch = [pc |-> "idle"]

----------------------------------------------------------------------------
(* Node.__init__ *)

\* The network is not run in the specifications of the single node.
NetIdle ==
    /\ net_tables = [n \in NetNodes |-> <<>>]
    /\ net_seen = [n \in NetNodes |-> {}]
    /\ net_sem = [n \in NetNodes |-> MAX_CONCURRENT_SENDS]
    /\ net_log = [n \in NetNodes |-> <<>>]
    /\ net_gossip = [n \in NetNodes |-> <<>>]
    /\ net_send = [n \in NetNodes |-> <<>>]
    /\ net_trigger = 0

Init ==
    /\ NetIdle
    /\ ned_db \in InitialStores
    /\ susceptible_nodes = get_neighbors_from_db(ned_db)
    /\ received_message_ids = {}
    /\ semaphore = MAX_CONCURRENT_SENDS
    /\ requests = {}
    /\ ncalls = 0
    /\ log = <<>>
    /\ acks = <<>>
    /\ gossip_tasks = <<>>
    /\ send_tasks = <<>>
    /\ outbox = {}
    /\ clock = 0
    /\ plane = PlaneIdle
    /\ CtlIdle

\* Node.__init__ over every kind of store.
InitStart ==
    /\ NetIdle
    /\ ned_db \in StartStores
    /\ susceptible_nodes = get_neighbors_from_db(ned_db)
    /\ received_message_ids = {}
    /\ semaphore = MAX_CONCURRENT_SENDS
    /\ requests = {}
    /\ ncalls = 0
    /\ log = <<>>
    /\ acks = <<>>
    /\ gossip_tasks = <<>>
    /\ send_tasks = <<>>
    /\ outbox = {}
    /\ clock = 0
    /\ plane = PlaneIdle
    /\ CtlIdle

----------------------------------------------------------------------------
(* The server accepts an inbound call; its handler runs later. *)

AcceptSendMessage(message, sender_id, round_count) ==
    /\ ncalls < MaxCalls
    /\ requests' = requests \cup
          {SendMessageRequest(ncalls + 1, message, sender_id, round_count)}
    /\ ncalls' = ncalls + 1
    /\ UNCHANGED <<susceptible_nodes, received_message_ids, semaphore, ned_db,
                   log, acks, gossip_tasks, send_tasks, outbox>>
    /\ UNCHANGED <<clock, netvars, plane, ctlvars>>

AcceptUpdateNeighbors(neighbors) ==
    /\ ncalls < MaxCalls
    /\ requests' = requests \cup {UpdateNeighborsRequest(ncalls + 1, neighbors)}
    /\ ncalls' = ncalls + 1
    /\ UNCHANGED <<susceptible_nodes, received_message_ids, semaphore, ned_db,
                   log, acks, gossip_tasks, send_tasks, outbox>>
    /\ UNCHANGED <<clock, netvars, plane, ctlvars>>

----------------------------------------------------------------------------
(* UpdateNeighbors *)

\* Mutant: the cache is not cleared.
ClearCache_Kept(ids) == ids

\* self.received_message_ids.clear()
ClearCache(ids) == {}

UpdateNeighbors(req, fault) ==
    /\ req \in requests
    /\ req.rpc = "UpdateNeighbors"
    /\ requests' = requests \ {req}
    /\ susceptible_nodes' = InstalledNeighbors(req.neighbors)
    /\ received_message_ids' = ClearCache(received_message_ids)
    /\ LET w == WriteNeighbors(ned_db, susceptible_nodes', fault) IN
          /\ ned_db' = w.db
          /\ IF w.ok
             THEN /\ log' = Append(log, Marker("refreshed"))
                  /\ acks' = Append(acks, Ack(req.rpc, "updated"))
             ELSE /\ log' = Append(log, Marker("update_error"))
                  /\ acks' = Append(acks, Ack(req.rpc, "error"))
    /\ UNCHANGED <<semaphore, ncalls, gossip_tasks, send_tasks, outbox>>
    /\ UNCHANGED <<clock, netvars, plane, ctlvars>>

----------------------------------------------------------------------------
(* SendMessage *)

\* Mutant: the handler enters gossip_message itself (await instead of
\* create_task) before it returns.
GossipTask_Awaited(message, sender_id, round_count, at) ==
    [message |-> message, sender_id |-> sender_id, round_count |-> round_count,
     pc |-> "gather", at |-> at]

\* asyncio.create_task(self.gossip_message(message, sender_id, round_count)):
\* the task is scheduled and has not run when the handler returns.
GossipTask(message, sender_id, round_count, at) ==
    [message |-> message, sender_id |-> sender_id, round_count |-> round_count,
     pc |-> "created", at |-> at]

\* Mutant: no call is taken as a duplicate.
SendMessageCase_NoDedup(sender_id, message, ids) ==
    IF sender_id = host THEN "initiate" ELSE "received"

\* Mutant: the tracker is looked up before the sender is.
SendMessageCase_TrackerFirst(sender_id, message, ids) ==
    IF message \in ids THEN "duplicate"
    ELSE IF sender_id = host THEN "initiate"
    ELSE "received"

\* Which of the three cases of SendMessage a request takes.
SendMessageCase(sender_id, message, ids) ==
    IF sender_id = host THEN "initiate"
    ELSE IF message \in ids THEN "duplicate"
    ELSE "received"

\* Mutant: the add is forgotten.
MarkSeen_Forgotten(ids, message) == ids

\* self.received_message_ids.add(message)
MarkSeen(ids, message) == ids \cup {message}

\* Mutant: the fan-out is given the incoming round as it came.
FanoutRound_Incoming(kind, incoming_round_count) == incoming_round_count

\* The round the fan-out of an accepted message carries.
FanoutRound(kind, incoming_round_count) ==
    IF kind = "initiate" THEN 0 ELSE incoming_round_count + 1

\* The round _log_event is given.
LoggedRound(kind, incoming_round_count) ==
    IF kind = "initiate" THEN 0 ELSE incoming_round_count

SendMessage(req) ==
    /\ req \in requests
    /\ req.rpc = "SendMessage"
    /\ requests' = requests \ {req}
    /\ LET kind == SendMessageCase(req.sender_id, req.message, received_message_ids) IN
          /\ log' = Append(log, Event(kind, req.message, req.sender_id,
                                      LoggedRound(kind, req.round_count)))
          /\ acks' = Append(acks, Ack(req.rpc, kind))
          /\ IF kind = "duplicate"
             THEN UNCHANGED <<received_message_ids, gossip_tasks>>
             ELSE /\ received_message_ids' = MarkSeen(received_message_ids, req.message)
                  /\ gossip_tasks' =
                        Append(gossip_tasks,
                               GossipTask(req.message, req.sender_id,
                                          FanoutRound(kind, req.round_count),
                                          Len(log')))
    /\ UNCHANGED <<susceptible_nodes, semaphore, ned_db, ncalls, send_tasks, outbox>>
    /\ UNCHANGED <<clock, netvars, plane, ctlvars>>

----------------------------------------------------------------------------
(* gossip_message *)

SendTask(parent, message, sender_id, peer_ip, peer_weight, round_count) ==
    [parent |-> parent, message |-> message, sender_id |-> sender_id,
     peer_ip |-> peer_ip, peer_weight |-> peer_weight,
     round_count |-> round_count, pc |-> "created"]

\* Mutant: the test `peer_ip != sender_id` is left out.
FanoutEdges_NoFilter(nodes, sender_id) == nodes

\* Mutant: the loop ends after the first task it creates.
FanoutEdges_FirstOnly(nodes, sender_id) ==
    LET sel == SelectSeq(nodes, LAMBDA e : e[1] # sender_id)
    IN  IF sel = <<>> THEN <<>> ELSE <<Head(sel)>>

\* The for-loop's filter: the edges a fan-out relays on, in table order.
FanoutEdges(nodes, sender_id) ==
    SelectSeq(nodes, LAMBDA e : e[1] # sender_id)

\* The first run of gossip_message task g: one _send_gossip_to_peer task per
\* selected edge, then the await of gather (skipped when there is no task).
gossip_message(g) ==
    /\ g \in DOMAIN gossip_tasks
    /\ gossip_tasks[g].pc = "created"
    /\ LET t == gossip_tasks[g]
           edges == FanoutEdges(susceptible_nodes, t.sender_id)
           new == [i \in DOMAIN edges |->
                      SendTask(g, t.message, t.sender_id, edges[i][1],
                               edges[i][2], t.round_count)]
       IN /\ send_tasks' = send_tasks \o new
          /\ gossip_tasks' =
                [gossip_tasks EXCEPT ![g].pc = "gather"]
    /\ UNCHANGED <<susceptible_nodes, received_message_ids, semaphore, ned_db,
                   requests, ncalls, log, acks, outbox>>
    /\ UNCHANGED <<clock, netvars, plane, ctlvars>>

\* asyncio.gather returns once every task of the fan-out has ended, and
\* gossip_message ends with it.
GossipEnded(g) ==
    /\ gossip_tasks[g].pc # "created"
    /\ \A j \in DOMAIN send_tasks :
          send_tasks[j].parent = g => send_tasks[j].pc \in {"sent", "failed"}

----------------------------------------------------------------------------
(* _send_gossip_to_peer *)

\* Mutant: the limiter never blocks.
Locked_Never(value) == FALSE

\* Semaphore.locked(): no slot is free.
Locked(value) == value = 0

\* The task's first run reaches `async with self.semaphore`: it takes a slot
\* when the semaphore is not locked and goes on to the sleep, else it waits.
SendStart(j) ==
    /\ j \in DOMAIN send_tasks
    /\ send_tasks[j].pc = "created"
    /\ IF Locked(semaphore)
       THEN /\ send_tasks' = [send_tasks EXCEPT ![j].pc = "waiting"]
            /\ UNCHANGED semaphore
       ELSE /\ send_tasks' = [send_tasks EXCEPT ![j].pc = "sleep"]
            /\ semaphore' = semaphore - 1
    /\ UNCHANGED <<susceptible_nodes, received_message_ids, ned_db, requests,
                   ncalls, log, acks, gossip_tasks, outbox>>
    /\ UNCHANGED <<clock, netvars, plane, ctlvars>>

\* A waiting task is woken after a release and takes the slot.
SendAcquire(j) ==
    /\ j \in DOMAIN send_tasks
    /\ send_tasks[j].pc = "waiting"
    /\ ~Locked(semaphore)
    /\ semaphore' = semaphore - 1
    /\ send_tasks' = [send_tasks EXCEPT ![j].pc = "sleep"]
    /\ UNCHANGED <<susceptible_nodes, received_message_ids, ned_db, requests,
                   ncalls, log, acks, gossip_tasks, outbox>>
    /\ UNCHANGED <<clock, netvars, plane, ctlvars>>

\* Mutant: the call names the sender the message came from.
Outbound_OriginalSender(j, t) ==
    [task |-> j, to |-> t.peer_ip, message |-> t.message,
     sender_id |-> t.sender_id, latency_ms |-> t.peer_weight,
     round_count |-> t.round_count]

\* Mutant: the call carries the weight the table holds for the peer when the
\* call is made, 0 when the table no longer names the peer.
Outbound_Retargeted(j, t) ==
    [task |-> j, to |-> t.peer_ip, message |-> t.message, sender_id |-> host,
     latency_ms |->
        IF \E i \in DOMAIN susceptible_nodes : susceptible_nodes[i][1] = t.peer_ip
        THEN LET i == CHOOSE k \in DOMAIN susceptible_nodes :
                          susceptible_nodes[k][1] = t.peer_ip
             IN  susceptible_nodes[i][2]
        ELSE 0,
     round_count |-> t.round_count]

\* The GossipMessage of the outbound stub call.
Outbound(j, t) ==
    [task |-> j, to |-> t.peer_ip, message |-> t.message, sender_id |-> host,
     latency_ms |-> t.peer_weight, round_count |-> t.round_count]

\* The sleep of peer_weight ms is over: the stub call is issued.
SendCall(j) ==
    /\ j \in DOMAIN send_tasks
    /\ send_tasks[j].pc = "sleep"
    /\ send_tasks' = [send_tasks EXCEPT ![j].pc = "call"]
    /\ outbox' = outbox \cup {Outbound(j, send_tasks[j])}
    /\ UNCHANGED <<susceptible_nodes, received_message_ids, semaphore, ned_db,
                   requests, ncalls, log, acks, gossip_tasks>>
    /\ UNCHANGED <<clock, netvars, plane, ctlvars>>

\* Mutant: leaving the block gives no slot back.
Release_Lost(value) == value

\* The slots free after the `async with` block is left.
Release(value) == value + 1

\* Mutant: the exception of a failed call is not caught in the task and ends
\* the other unfinished tasks of its fan-out with it.
AfterCall_Abort(tasks, j, ok) ==
    [k \in DOMAIN tasks |->
        IF k = j
        THEN [tasks[k] EXCEPT !.pc = IF ok THEN "sent" ELSE "failed"]
        ELSE IF ~ok /\ tasks[k].parent = tasks[j].parent
                    /\ tasks[k].pc \notin {"sent", "failed"}
             THEN [tasks[k] EXCEPT !.pc = "failed"]
             ELSE tasks[k]]

\* The tasks after the stub call of task j has returned (ok) or raised: the
\* except branch of line 108 catches the exception inside the task, which
\* ends; no other task is touched and no new call is made.
AfterCall(tasks, j, ok) ==
    [tasks EXCEPT ![j].pc = IF ok THEN "sent" ELSE "failed"]

\* The stub call returns, or raises and the except branch prints the failure;
\* either way the `async with` block is left and the slot released.
SendEnd(j, ok) ==
    /\ j \in DOMAIN send_tasks
    /\ send_tasks[j].pc = "call"
    /\ send_tasks' = AfterCall(send_tasks, j, ok)
    /\ semaphore' = Release(semaphore)
    /\ UNCHANGED <<susceptible_nodes, received_message_ids, ned_db, requests,
                   ncalls, log, acks, gossip_tasks, outbox>>
    /\ UNCHANGED <<clock, netvars, plane, ctlvars>>

----------------------------------------------------------------------------

(* The RPC surface: the two handlers and the start of each fan-out.  The   *)
(* steps of the relay tasks are left out: they write send_tasks' pc, the   *)
(* semaphore and the outbox only, none of which a handler or               *)
(* gossip_message reads.                                                   *)

Next ==
    \/ \E m \in Messages, s \in Addrs : AcceptSendMessage(m, s, 1)
    \/ \E l \in NeighborLists : AcceptUpdateNeighbors(l)
    \/ \E req \in requests : SendMessage(req)
    \/ \E req \in requests, fault \in Faults : UpdateNeighbors(req, fault)
    \/ \E g \in DOMAIN gossip_tasks : gossip_message(g)

Spec == Init /\ [][Next]_vars

(* The whole node, relay tasks included, on fewer inputs: one message,     *)
(* triggered by the node itself or delivered by peer A at round 0, and     *)
(* updates whose store write succeeds.                                     *)

NextRelay ==
    \/ /\ ncalls < MaxRelayCalls
       /\ \E s \in {host, "A"} : AcceptSendMessage("m1", s, 0)
    \/ /\ ncalls < MaxRelayCalls
       /\ \E l \in {<<>>, <<EA, EB>>} : AcceptUpdateNeighbors(l)
    \/ \E req \in requests : SendMessage(req)
    \/ \E req \in requests : UpdateNeighbors(req, "none")
    \/ \E g \in DOMAIN gossip_tasks : gossip_message(g)
    \/ \E j \in DOMAIN send_tasks : SendStart(j)
    \/ \E j \in DOMAIN send_tasks : SendAcquire(j)
    \/ \E j \in DOMAIN send_tasks : SendCall(j)
    \/ \E j \in DOMAIN send_tasks, ok \in BOOLEAN : SendEnd(j, ok)

SpecRelay == Init /\ [][NextRelay]_vars

(* The whole node started on any kind of store. *)

SpecStart == InitStart /\ [][NextRelay]_vars

----------------------------------------------------------------------------
(* The relay tasks with the clock.  The steps of _send_gossip_to_peer are  *)
(* those above; here the task also carries send_timestamp, taken from the  *)
(* clock at its first run (line 95), and wake, the time its sleep ends.    *)
(* The clock moves when a sleep ends after the time it shows: the event    *)
(* loop is idle until then.                                                *)

\* asyncio.sleep(int(peer_weight) / 1000): the delay in milliseconds.
Delay(peer_weight) == peer_weight

\* The time at which a sleep that ends at `wake` is over.
Woken(now, wake) == IF now < wake THEN wake ELSE now

\* The task's first run: send_timestamp = time.time_ns(), then `async with
\* self.semaphore`.
TimedStart(j) ==
    /\ j \in DOMAIN send_tasks
    /\ send_tasks[j].pc = "created"
    /\ IF Locked(semaphore)
       THEN /\ send_tasks' = [send_tasks EXCEPT ![j] =
                  [pc |-> "waiting", send_timestamp |-> clock] @@ @]
            /\ UNCHANGED semaphore
       ELSE /\ send_tasks' = [send_tasks EXCEPT ![j] =
                  [pc |-> "sleep", send_timestamp |-> clock,
                   wake |-> clock + Delay(@.peer_weight)] @@ @]
            /\ semaphore' = semaphore - 1
    /\ UNCHANGED <<susceptible_nodes, received_message_ids, ned_db, requests,
                   ncalls, log, acks, gossip_tasks, outbox, clock>>
    /\ UNCHANGED <<netvars, plane, ctlvars>>

\* A waiting task takes a released slot and starts its sleep.
TimedAcquire(j) ==
    /\ j \in DOMAIN send_tasks
    /\ send_tasks[j].pc = "waiting"
    /\ ~Locked(semaphore)
    /\ semaphore' = semaphore - 1
    /\ send_tasks' = [send_tasks EXCEPT ![j] =
          [pc |-> "sleep", wake |-> clock + Delay(@.peer_weight)] @@ @]
    /\ UNCHANGED <<susceptible_nodes, received_message_ids, ned_db, requests,
                   ncalls, log, acks, gossip_tasks, outbox, clock>>
    /\ UNCHANGED <<netvars, plane, ctlvars>>

\* Mutant: the timestamp of the request is the time at which the call is
\* issued.
TimedOutbound_AtCall(j, t) ==
    [timestamp |-> Woken(clock, t.wake)] @@ Outbound(j, t)

\* The GossipMessage of the outbound call with its timestamp field (line
\* 104).
TimedOutbound(j, t) == [timestamp |-> t.send_timestamp] @@ Outbound(j, t)

\* The sleep is over, at the task's wake-up time or later: the stub call is
\* issued.
TimedCall(j) ==
    /\ j \in DOMAIN send_tasks
    /\ send_tasks[j].pc = "sleep"
    /\ clock' = Woken(clock, send_tasks[j].wake)
    /\ send_tasks' = [send_tasks EXCEPT ![j].pc = "call"]
    /\ outbox' = outbox \cup {TimedOutbound(j, send_tasks[j])}
    /\ UNCHANGED <<susceptible_nodes, received_message_ids, semaphore, ned_db,
                   requests, ncalls, log, acks, gossip_tasks>>
    /\ UNCHANGED <<netvars, plane, ctlvars>>

\* The store the timed node finds at start: three peers, one more than the
\* limiter of the model has slots.
TimedStore ==
    WriteNeighbors(AbsentDb, <<<<"A", 10>>, <<"B", 20>>, <<"C", 10>>>>, "none").db

\* The timed node after Node.__init__, when the server has accepted one
\* SendMessage call: the trigger, or a delivery from a peer of the table.
InitClock ==
    /\ NetIdle
    /\ ned_db = TimedStore
    /\ susceptible_nodes = get_neighbors_from_db(ned_db)
    /\ received_message_ids = {}
    /\ semaphore = MAX_CONCURRENT_SENDS
    /\ \E s \in {host, "A", "B"}, r \in {0, 1} :
          requests = {SendMessageRequest(1, "m1", s, r)}
    /\ ncalls = 1
    /\ log = <<>>
    /\ acks = <<>>
    /\ gossip_tasks = <<>>
    /\ send_tasks = <<>>
    /\ outbox = {}
    /\ clock = 0
    /\ plane = PlaneIdle
    /\ CtlIdle

\* The timed node: the handler of the call, its fan-out over the table
\* loaded at start and the relay tasks with the clock.
NextClock ==
    \/ \E req \in requests : SendMessage(req)
    \/ \E g \in DOMAIN gossip_tasks : gossip_message(g)
    \/ \E j \in DOMAIN send_tasks : TimedStart(j)
    \/ \E j \in DOMAIN send_tasks : TimedAcquire(j)
    \/ \E j \in DOMAIN send_tasks : TimedCall(j)
    \/ \E j \in DOMAIN send_tasks, ok \in BOOLEAN : SendEnd(j, ok)

SpecClock == InitClock /\ [][NextClock]_vars

----------------------------------------------------------------------------
(* The control plane's update of one pod (update_pod_full_flow of          *)
(* prepare_new.py; update_pod_neighbors and notify_pod_for_update of       *)
(* prepare.py are the same two phases).  Phase 1 runs a script in the pod  *)
(* that writes the pod's list to ned.db with the statements of             *)
(* UpdateNeighbors; phase 2 runs a script in the pod that calls            *)
(* stub.UpdateNeighbors(Empty()).  The .proto and the generated stubs are  *)
(* not part of the sources, so what becomes of the Empty is one of:        *)
(*   "parsed"  - it goes over the wire as zero bytes, which the server     *)
(*               parses as a request without neighbors;                    *)
(*   "nofield" - the request type has no neighbors field, so line 42       *)
(*               raises and the except branch answers;                     *)
(*   "refused" - the stub's serializer rejects the Empty and the script    *)
(*               exits 1 at every retry.                                   *)

\* Lists the control plane pushes for the pod, as (ip, weight) pairs.
PushLists ==
    {<<>>, <<<<"A", 10>>>>, <<<<"A", 10>>, <<"B", 20>>>>, <<<<"B", 20>>, <<"B", 20>>>>}

Wires == {"parsed", "nofield", "refused"}

\* Phase 1, update_pod_neighbors_db: the script's with-block on the pod's
\* ned.db; run_command_with_retry gives up when every attempt has failed.
update_pod_neighbors_db(neighbors, fault) ==
    /\ plane.phase = "idle"
    /\ LET w == WriteNeighbors(ned_db, neighbors, fault) IN
          /\ ned_db' = w.db
          /\ plane' = [plane EXCEPT !.phase = IF w.ok THEN "db_done" ELSE "failed",
                                    !.neighbors = neighbors]
    /\ UNCHANGED <<susceptible_nodes, received_message_ids, semaphore, requests,
                   ncalls, log, acks, gossip_tasks, send_tasks, outbox>>
    /\ UNCHANGED <<clock, netvars, ctlvars>>

\* Phase 2, notify_pod_for_update_grpc: stub.UpdateNeighbors(Empty()).
notify_pod_for_update_grpc(wire) ==
    /\ plane.phase = "db_done"
    /\ IF wire = "refused"
       THEN /\ plane' = [plane EXCEPT !.phase = "failed", !.wire = wire]
            /\ UNCHANGED <<requests, ncalls>>
       ELSE /\ plane' = [plane EXCEPT !.phase = "notifying", !.wire = wire,
                                      !.call = ncalls + 1]
            /\ requests' = requests \cup {UpdateNeighborsRequest(ncalls + 1, <<>>)}
            /\ ncalls' = ncalls + 1
    /\ UNCHANGED <<susceptible_nodes, received_message_ids, semaphore, ned_db,
                   log, acks, gossip_tasks, send_tasks, outbox>>
    /\ UNCHANGED <<clock, netvars, ctlvars>>

\* UpdateNeighbors on a request without a neighbors field: line 42 raises
\* before it assigns, and the except branch prints and answers.
UpdateNeighborsNoField(req) ==
    /\ req \in requests
    /\ req.rpc = "UpdateNeighbors"
    /\ plane.wire = "nofield"
    /\ requests' = requests \ {req}
    /\ log' = Append(log, Marker("update_error"))
    /\ acks' = Append(acks, Ack(req.rpc, "error"))
    /\ UNCHANGED <<susceptible_nodes, received_message_ids, semaphore, ned_db,
                   ncalls, gossip_tasks, send_tasks, outbox>>
    /\ UNCHANGED <<clock, netvars, plane, ctlvars>>

\* The handler of the notification, on the request as the server parsed it.
UpdateNeighborsNotified(req, fault) ==
    /\ plane.wire = "parsed"
    /\ UpdateNeighbors(req, fault)

\* The call of the script returns with an Acknowledgment, whatever its
\* details: the script prints and exits 0, and update_pod_full_flow returns
\* (True, "Synchronized").
update_pod_full_flow ==
    /\ plane.phase = "notifying"
    /\ \A req \in requests : req.id # plane.call
    /\ plane' = [plane EXCEPT !.phase = "synchronized"]
    /\ UNCHANGED <<nodevars, netvars, ctlvars>>

\* The node and the update of its pod, with one message sent to the node at
\* any moment of it.
NextPush ==
    \/ \E l \in PushLists, fault \in Faults : update_pod_neighbors_db(l, fault)
    \/ \E wire \in Wires : notify_pod_for_update_grpc(wire)
    \/ \E req \in requests, fault \in Faults : UpdateNeighborsNotified(req, fault)
    \/ \E req \in requests : UpdateNeighborsNoField(req)
    \/ update_pod_full_flow
    \/ /\ ncalls < MaxRelayCalls
       /\ \E s \in {host, "A"} : AcceptSendMessage("m1", s, 0)
    \/ \E req \in requests : SendMessage(req)
    \/ \E g \in DOMAIN gossip_tasks : gossip_message(g)

SpecPush == Init /\ [][NextPush]_vars

----------------------------------------------------------------------------
(* The control scripts run on their own: the node, its store and the       *)
(* network are as constructed and are not touched.                         *)

NodeOff ==
    /\ NetIdle
    /\ ned_db = AbsentDb
    /\ susceptible_nodes = <<>>
    /\ received_message_ids = {}
    /\ semaphore = MAX_CONCURRENT_SENDS
    /\ requests = {}
    /\ ncalls = 0
    /\ log = <<>>
    /\ acks = <<>>
    /\ gossip_tasks = <<>>
    /\ send_tasks = <<>>
    /\ outbox = {}
    /\ clock = 0
    /\ plane = PlaneIdle

----------------------------------------------------------------------------
(* run_command_with_retry (prepare.py lines 11-43, prepare_new.py lines    *)
(* 11-29: the same loop with other defaults).                              *)

\* What one subprocess.run does: returns, or raises CalledProcessError,
\* TimeoutExpired or another Exception.
Outcomes == {"ok", "exit", "timeout", "error"}

\* last_error after an attempt that raised.
LastError(outcome) ==
    CASE outcome = "exit" -> "Exit"
      [] outcome = "timeout" -> "Timed out"
      [] OTHER -> "Unexpected error"

\* Mutant: the loop sleeps after every failed attempt.
SleepsAfter_Every(attempt, retries) == attempt < retries

\* `if attempt < retries - 1`: a failed attempt is followed by a sleep.
SleepsAfter(attempt, retries) == attempt < retries - 1

\* Mutant: the loop makes one attempt more than `retries`.
InRange_OneMore(attempt, retries) == attempt <= retries

\* `for attempt in range(retries)`: attempt is one of the loop's values.
InRange(attempt, retries) == attempt < retries

\* The call as it enters the loop.
RetryCall(retries) ==
    [pc |-> "loop", retries |-> retries, attempt |-> 0, outcomes |-> <<>>,
     sleeps |-> <<>>, last_error |-> "", ret |-> <<>>]

InitRetry ==
    /\ NodeOff
    /\ batch = [pc |-> "idle"]
    /\ orch = [pc |-> "idle"]
    /\ \E retries \in 0..MaxRetries : retry = RetryCall(retries)

\* One pass of the loop body up to the sleep: subprocess.run returns and the
\* function returns (True, stdout), or it raises and last_error is set.
RetryAttempt(outcome) ==
    /\ retry.pc = "loop"
    /\ InRange(retry.attempt, retry.retries)
    /\ retry' =
          IF outcome = "ok"
          THEN [retry EXCEPT !.pc = "returned",
                             !.outcomes = Append(@, outcome),
                             !.ret = <<TRUE, "stdout">>]
          ELSE [retry EXCEPT !.pc = IF SleepsAfter(retry.attempt, retry.retries)
                                    THEN "sleep" ELSE "loop",
                             !.attempt = IF SleepsAfter(retry.attempt, retry.retries)
                                         THEN @ ELSE @ + 1,
                             !.outcomes = Append(@, outcome),
                             !.last_error = LastError(outcome)]
    /\ UNCHANGED <<nodevars, netvars, plane, batch, orch>>

\* time.sleep(sleep_time) returns and the loop takes its next value.
RetrySleep ==
    /\ retry.pc = "sleep"
    /\ retry' = [retry EXCEPT !.pc = "loop",
                              !.sleeps = Append(@, retry.attempt),
                              !.attempt = @ + 1]
    /\ UNCHANGED <<nodevars, netvars, plane, batch, orch>>

\* The loop is exhausted: return (False, "Failed after ... attempts ...").
RetryGiveUp ==
    /\ retry.pc = "loop"
    /\ ~InRange(retry.attempt, retry.retries)
    /\ retry' = [retry EXCEPT !.pc = "returned",
                              !.ret = <<FALSE, <<"Failed after", retry.retries,
                                                 retry.last_error>>>>]
    /\ UNCHANGED <<nodevars, netvars, plane, batch, orch>>

NextRetry ==
    \/ \E outcome \in Outcomes : RetryAttempt(outcome)
    \/ RetrySleep
    \/ RetryGiveUp

SpecRetry == InitRetry /\ [][NextRetry]_vars

----------------------------------------------------------------------------
(* update_all_pods.  In prepare.py (lines 238-331) phase 1 runs             *)
(* update_pod_neighbors for every pod of the mapping on a thread pool and  *)
(* collects every result, then phase 2 runs notify_pod_for_update for the  *)
(* pods whose phase 1 succeeded.  In prepare_new.py (lines 128-157) the    *)
(* pool runs update_pod_full_flow per pod: the DB update, then, when it    *)
(* succeeded, the notification.  A result is (success, output) of          *)
(* run_command_with_retry, or an exception of the future, which prepare.py *)
(* counts as a failure.                                                    *)

\* The pods of the deployment.
BatchPods == {"p1", "p2", "p3"}

Scripts == {"prepare", "prepare_new"}

\* The call as it has submitted its DB updates; __main__ of both scripts
\* calls it with a mapping that is not empty.
BatchCall(script, mapping) ==
    [pc |-> "running", script |-> script, mapping |-> mapping,
     db |-> [p \in mapping |-> "queued"],
     notify |-> [p \in mapping |-> "none"],
     ret |-> FALSE]

InitBatch ==
    /\ NodeOff
    /\ retry = [pc |-> "idle"]
    /\ orch = [pc |-> "idle"]
    /\ \E script \in Scripts, mapping \in (SUBSET BatchPods) \ {{}} :
          batch = BatchCall(script, mapping)

\* Mutant: every pod of the mapping is notified.
ToNotify_All(db) == DOMAIN db

\* pods_to_notify: the pods whose DB update succeeded.
ToNotify(db) == {p \in DOMAIN db : db[p] = "ok"}

\* Every DB update has returned its result.
Phase1Over(db) == \A p \in DOMAIN db : db[p] # "queued"

\* The DB update of pod p returns its result.
BatchDbDone(p, ok) ==
    /\ batch.pc = "running"
    /\ p \in batch.mapping
    /\ batch.db[p] = "queued"
    /\ batch' = [batch EXCEPT !.db[p] = IF ok THEN "ok" ELSE "failed"]
    /\ UNCHANGED <<nodevars, netvars, plane, retry, orch>>

\* The notification of pod p is started: by phase 2 of prepare.py, which is
\* entered when phase 1 is over and some DB update succeeded, or by the flow
\* of the pod in prepare_new.py.
BatchNotify(p) ==
    /\ batch.pc = "running"
    /\ p \in ToNotify(batch.db)
    /\ batch.notify[p] = "none"
    /\ batch.script = "prepare" => Phase1Over(batch.db)
    /\ batch' = [batch EXCEPT !.notify[p] = "sent"]
    /\ UNCHANGED <<nodevars, netvars, plane, retry, orch>>

\* The notification of pod p returns its result.
BatchNotifyDone(p, ok) ==
    /\ batch.pc = "running"
    /\ p \in batch.mapping
    /\ batch.notify[p] = "sent"
    /\ batch' = [batch EXCEPT !.notify[p] = IF ok THEN "ok" ELSE "failed"]
    /\ UNCHANGED <<nodevars, netvars, plane, retry, orch>>

\* notify_success_count (success_count in prepare_new.py).
NotifySuccessCount(b) == Cardinality({p \in b.mapping : b.notify[p] = "ok"})

\* The function returns: prepare.py returns False when no DB update
\* succeeded, both return the comparison of the success count with the
\* number of pods when every submitted call has returned.
BatchReturn ==
    /\ batch.pc = "running"
    /\ Phase1Over(batch.db)
    /\ \A p \in ToNotify(batch.db) : batch.notify[p] \in {"ok", "failed"}
    /\ batch' = [batch EXCEPT !.pc = "returned",
                              !.ret = NotifySuccessCount(batch) =
                                         Cardinality(batch.mapping)]
    /\ UNCHANGED <<nodevars, netvars, plane, retry, orch>>

NextBatch ==
    \/ \E p \in BatchPods, ok \in BOOLEAN : BatchDbDone(p, ok)
    \/ \E p \in BatchPods : BatchNotify(p)
    \/ \E p \in BatchPods, ok \in BOOLEAN : BatchNotifyDone(p, ok)
    \/ BatchReturn

SpecBatch == InitBatch /\ [][NextBatch]_vars

----------------------------------------------------------------------------
(* The orchestrators.  orchestrator.py (main, lines 159-326) is modelled   *)
(* step by step: the loop over the topology files with its fresh install   *)
(* or warm start, the ready barrier, the integrity check, the injection    *)
(* and the test runs, then the finally block.  Of orchestrator3.py (lines  *)
(* 292-352) and controller/orchestra.py (lines 148-194) the loop body is   *)
(* one step per file, and the finally block is modelled step by step.      *)
(* A subprocess.run with an argument list raises FileNotFoundError when    *)
(* the binary is not on the PATH; the same command through the shell with  *)
(* check=True raises CalledProcessError.                                   *)

Orchestrators == {"orchestrator", "orchestrator3", "orchestra"}

\* The node counts of the topology files, in the order of the loop.
OrchFiles(script) ==
    UNION {[1..n -> 0..MaxNodes] :
              n \in (IF script = "orchestrator" THEN 0 ELSE 1)..MaxFiles}

\* main as it enters the try block of its experiment loop.  helm: the helm
\* binary is on the PATH of the machine.
OrchStart(script, files, helm) ==
    [script |-> script, pc |-> "next", files |-> files, helm |-> helm,
     idx |-> 0, expected |-> 0, last_p2p_count |-> 0,
     reinstalls |-> {}, matched |-> FALSE, injected |-> FALSE,
     triggered |-> {}, teardown |-> <<>>]

InitOrch ==
    /\ NodeOff
    /\ retry = [pc |-> "idle"]
    /\ batch = [pc |-> "idle"]
    /\ \E script \in Orchestrators, helm \in BOOLEAN :
          \E files \in OrchFiles(script) : orch = OrchStart(script, files, helm)

OrchOnly == <<nodevars, netvars, plane, retry, batch>>

\* orchestrator.py lines 186-211: the loop takes its next file, or ends.  A
\* file of 0 nodes is skipped; when the node count differs from
\* last_p2p_count the fresh install starts with `helm uninstall`.
OrchNext ==
    /\ orch.script = "orchestrator"
    /\ orch.pc = "next"
    /\ IF orch.idx = Len(orch.files)
       THEN orch' = [orch EXCEPT !.pc = "cleanup"]
       ELSE LET i == orch.idx + 1
                n == orch.files[i]
                o == [orch EXCEPT !.idx = i, !.expected = n,
                                  !.matched = FALSE, !.injected = FALSE]
            IN  orch' =
                   IF n = 0 THEN o
                   ELSE IF n # orch.last_p2p_count
                   THEN [o EXCEPT !.reinstalls = @ \cup {i},
                                  !.pc = IF orch.helm THEN "install" ELSE "cleanup"]
                   ELSE [o EXCEPT !.pc = "details"]
    /\ UNCHANGED OrchOnly

\* Lines 213-240: the termination barrier ends (clean, or forced after the
\* timeout) and `helm install` runs with check=True.
OrchInstall(ok) ==
    /\ orch.script = "orchestrator"
    /\ orch.pc = "install"
    /\ orch' = [orch EXCEPT !.pc = IF ok THEN "ready" ELSE "cleanup"]
    /\ UNCHANGED OrchOnly

\* Lines 242-265: the ready barrier.  It ends with the count of Running pods
\* equal to expected_nodes, or by its timeout, which resets last_p2p_count
\* and skips the file.
OrchReady(ready_barrier) ==
    /\ orch.script = "orchestrator"
    /\ orch.pc = "ready"
    /\ orch' = IF ready_barrier
               THEN [orch EXCEPT !.pc = "details",
                                 !.last_p2p_count = orch.expected]
               ELSE [orch EXCEPT !.pc = "next", !.last_p2p_count = 0]
    /\ UNCHANGED OrchOnly

\* Lines 271-277: get_pod_details and the integrity check.  found is the
\* number of pods kubectl lists, -1 when the command fails and run_command
\* raises.
OrchDetails(found) ==
    /\ orch.script = "orchestrator"
    /\ orch.pc = "details"
    /\ orch' = IF found = -1 THEN [orch EXCEPT !.pc = "cleanup"]
               ELSE IF found # orch.expected
               THEN [orch EXCEPT !.pc = "next", !.last_p2p_count = 0]
               ELSE [orch EXCEPT !.pc = "inject", !.matched = TRUE]
    /\ UNCHANGED OrchOnly

\* push_topology (lines 102-154): success_count == len(pod_details).
PushSucceeded(results) == \A i \in DOMAIN results : results[i]

\* Lines 279-281: the injection; results holds what inject_single_node
\* returned for each pod.
OrchPush(results) ==
    /\ orch.script = "orchestrator"
    /\ orch.pc = "inject"
    /\ DOMAIN results = 1..orch.expected
    /\ orch' = IF PushSucceeded(results)
               THEN [orch EXCEPT !.pc = "tests", !.injected = TRUE]
               ELSE [orch EXCEPT !.pc = "next"]
    /\ UNCHANGED OrchOnly

\* Line 284: `for run_idx in range(1, NUM_REPEAT_TESTS + 1)`.  The module
\* defines no NUM_REPEAT_TESTS, so the line raises NameError and the try
\* block is left before the first `kubectl exec ... start.py`.
OrchTests ==
    /\ orch.script = "orchestrator"
    /\ orch.pc = "tests"
    /\ orch' = [orch EXCEPT !.pc = "cleanup"]
    /\ UNCHANGED OrchOnly

\* The loop body of orchestrator3.py and orchestra.py for one file: it ends
\* (done or skipped), or, in orchestrator3.py, raises and the except branch
\* of main logs it; orchestra.py catches every Exception inside the loop.
OrchIterate(raised) ==
    /\ orch.script # "orchestrator"
    /\ orch.pc = "next"
    /\ raised => orch.script = "orchestrator3"
    /\ orch' = IF orch.idx = Len(orch.files) \/ raised
               THEN [orch EXCEPT !.pc = "cleanup"]
               ELSE [orch EXCEPT !.idx = @ + 1, !.expected = orch.files[orch.idx + 1]]
    /\ UNCHANGED OrchOnly

\* The finally block starts.  orchestrator.py (305-310) and orchestrator3.py
\* (347-350) run subprocess.run(["helm", "uninstall", "simcn"]) inside a try
\* whose except ends the cleanup; orchestra.py (191-194) calls
\* delete_cluster only.
OrchCleanup ==
    /\ orch.pc = "cleanup"
    /\ orch' =
          IF orch.script = "orchestra"
          THEN [orch EXCEPT !.pc = "delete"]
          ELSE [orch EXCEPT !.teardown = Append(@, "helm uninstall"),
                            !.pc = IF ~orch.helm THEN "done"
                                   ELSE IF orch.script = "orchestrator"
                                   THEN "clearing" ELSE "delete"]
    /\ UNCHANGED OrchOnly

\* orchestrator.py lines 314-319: `while True` until kubectl lists no pod.
OrchCleared ==
    /\ orch.pc = "clearing"
    /\ orch' = [orch EXCEPT !.pc = "delete"]
    /\ UNCHANGED OrchOnly

\* gcloud container clusters delete.
OrchDelete ==
    /\ orch.pc = "delete"
    /\ orch' = [orch EXCEPT !.teardown = Append(@, "cluster delete"),
                            !.pc = "done"]
    /\ UNCHANGED OrchOnly

NextOrch ==
    \/ OrchNext
    \/ \E ok \in BOOLEAN : OrchInstall(ok)
    \/ \E ready_barrier \in BOOLEAN : OrchReady(ready_barrier)
    \/ \E found \in -1..MaxNodes : OrchDetails(found)
    \/ \E results \in UNION {[1..n -> BOOLEAN] : n \in 1..MaxNodes} : OrchPush(results)
    \/ OrchTests
    \/ \E raised \in BOOLEAN : OrchIterate(raised)
    \/ OrchCleanup
    \/ OrchCleared
    \/ OrchDelete

SpecOrch == InitOrch /\ [][NextOrch]_vars

----------------------------------------------------------------------------
(* A network of nodes.  Every node is one Node process as above, with its  *)
(* own table, tracker, semaphore, log and tasks; the tables are fixed (no  *)
(* UpdateNeighbors is called) and one broadcast is triggered by a          *)
(* self-addressed SendMessage at node host.  The outbound stub call of a   *)
(* relay task is the inbound SendMessage call of the peer: the peer's      *)
(* handler runs while the call is in flight, then the call returns.        *)

InitNet ==
    /\ susceptible_nodes = <<>>
    /\ received_message_ids = {}
    /\ semaphore = MAX_CONCURRENT_SENDS
    /\ ned_db = AbsentDb
    /\ requests = {}
    /\ ncalls = 0
    /\ log = <<>>
    /\ acks = <<>>
    /\ gossip_tasks = <<>>
    /\ send_tasks = <<>>
    /\ outbox = {}
    /\ clock = 0
    /\ plane = PlaneIdle
    /\ CtlIdle
    /\ net_tables \in NetGraphs
    /\ net_seen = [n \in NetNodes |-> {}]
    /\ net_sem = [n \in NetNodes |-> MAX_CONCURRENT_SENDS]
    /\ net_log = [n \in NetNodes |-> <<>>]
    /\ net_gossip = [n \in NetNodes |-> <<>>]
    /\ net_send = [n \in NetNodes |-> <<>>]
    /\ net_trigger = 0

\* The case SendMessage takes at the node whose address is self_host.
SendMessageCaseAt(self_host, sender_id, message, ids) ==
    IF sender_id = self_host THEN "initiate"
    ELSE IF message \in ids THEN "duplicate"
    ELSE "received"

\* The handler SendMessage of node n runs on a call (message, sender_id,
\* round_count).
NetSendMessage(n, message, sender_id, round_count) ==
    LET kind == SendMessageCaseAt(n, sender_id, message, net_seen[n]) IN
        /\ net_log' = [net_log EXCEPT ![n] =
              Append(@, Event(kind, message, sender_id,
                              LoggedRound(kind, round_count)))]
        /\ IF kind = "duplicate"
           THEN UNCHANGED <<net_seen, net_gossip>>
           ELSE /\ net_seen' = [net_seen EXCEPT ![n] = MarkSeen(@, message)]
                /\ net_gossip' = [net_gossip EXCEPT ![n] =
                      Append(@, GossipTask(message, sender_id,
                                           FanoutRound(kind, round_count),
                                           Len(net_log'[n])))]

\* The control plane triggers the broadcast: one self-addressed SendMessage
\* at node host.
NetTrigger ==
    /\ net_trigger = 0
    /\ net_trigger' = 1
    /\ NetSendMessage(host, NetMessage, host, 0)
    /\ UNCHANGED <<net_tables, net_sem, net_send>>
    /\ UNCHANGED <<nodevars, plane, ctlvars>>

\* gossip_message task g of node n takes its first run.
NetGossip(n, g) ==
    /\ g \in DOMAIN net_gossip[n]
    /\ net_gossip[n][g].pc = "created"
    /\ LET t == net_gossip[n][g]
           edges == FanoutEdges(net_tables[n], t.sender_id)
           new == [i \in DOMAIN edges |->
                      SendTask(g, t.message, t.sender_id, edges[i][1],
                               edges[i][2], t.round_count)]
       IN /\ net_send' = [net_send EXCEPT ![n] = @ \o new]
          /\ net_gossip' = [net_gossip EXCEPT ![n][g].pc = "gather"]
    /\ UNCHANGED <<net_tables, net_seen, net_sem, net_log, net_trigger>>
    /\ UNCHANGED <<nodevars, plane, ctlvars>>

\* Relay task j of node n reaches `async with self.semaphore`.
NetSendStart(n, j) ==
    /\ j \in DOMAIN net_send[n]
    /\ net_send[n][j].pc = "created"
    /\ IF Locked(net_sem[n])
       THEN /\ net_send' = [net_send EXCEPT ![n][j].pc = "waiting"]
            /\ UNCHANGED net_sem
       ELSE /\ net_send' = [net_send EXCEPT ![n][j].pc = "sleep"]
            /\ net_sem' = [net_sem EXCEPT ![n] = @ - 1]
    /\ UNCHANGED <<net_tables, net_seen, net_log, net_gossip, net_trigger>>
    /\ UNCHANGED <<nodevars, plane, ctlvars>>

\* A waiting relay task of node n takes a slot that was released.
NetSendAcquire(n, j) ==
    /\ j \in DOMAIN net_send[n]
    /\ net_send[n][j].pc = "waiting"
    /\ ~Locked(net_sem[n])
    /\ net_sem' = [net_sem EXCEPT ![n] = @ - 1]
    /\ net_send' = [net_send EXCEPT ![n][j].pc = "sleep"]
    /\ UNCHANGED <<net_tables, net_seen, net_log, net_gossip, net_trigger>>
    /\ UNCHANGED <<nodevars, plane, ctlvars>>

\* The sleep is over: the stub call to the peer is issued.
NetSendCall(n, j) ==
    /\ j \in DOMAIN net_send[n]
    /\ net_send[n][j].pc = "sleep"
    /\ net_send' = [net_send EXCEPT ![n][j].pc = "call"]
    /\ UNCHANGED <<net_tables, net_seen, net_sem, net_log, net_gossip, net_trigger>>
    /\ UNCHANGED <<nodevars, plane, ctlvars>>

\* The call of relay task j of node n reaches the peer, whose handler runs:
\* the request carries sender_id = the relaying node's address (line 103) and
\* the task's round_count (line 106).
NetServe(n, j) ==
    /\ j \in DOMAIN net_send[n]
    /\ net_send[n][j].pc = "call"
    /\ net_send[n][j].peer_ip \in NetNodes
    /\ NetSendMessage(net_send[n][j].peer_ip, net_send[n][j].message, n,
                      net_send[n][j].round_count)
    /\ net_send' = [net_send EXCEPT ![n][j].pc = "answered"]
    /\ UNCHANGED <<net_tables, net_sem, net_trigger>>
    /\ UNCHANGED <<nodevars, plane, ctlvars>>

\* The stub call of relay task j of node n returns (ok, after the peer's
\* handler ran) or raises (before or after the peer was reached); the slot
\* is released either way.
NetSendEnd(n, j, ok) ==
    /\ j \in DOMAIN net_send[n]
    /\ net_send[n][j].pc \in (IF ok THEN {"answered"} ELSE {"call", "answered"})
    /\ net_send' = [net_send EXCEPT ![n] = AfterCall(@, j, ok)]
    /\ net_sem' = [net_sem EXCEPT ![n] = Release(@)]
    /\ UNCHANGED <<net_tables, net_seen, net_log, net_gossip, net_trigger>>
    /\ UNCHANGED <<nodevars, plane, ctlvars>>

\* The network, where an outbound call may fail.
NextNet ==
    \/ NetTrigger
    \/ \E n \in NetNodes : \E g \in DOMAIN net_gossip[n] : NetGossip(n, g)
    \/ \E n \in NetNodes : \E j \in DOMAIN net_send[n] : NetSendStart(n, j)
    \/ \E n \in NetNodes : \E j \in DOMAIN net_send[n] : NetSendAcquire(n, j)
    \/ \E n \in NetNodes : \E j \in DOMAIN net_send[n] : NetSendCall(n, j)
    \/ \E n \in NetNodes : \E j \in DOMAIN net_send[n] : NetServe(n, j)
    \/ \E n \in NetNodes : \E j \in DOMAIN net_send[n], ok \in BOOLEAN :
          NetSendEnd(n, j, ok)

SpecNet == InitNet /\ [][NextNet]_vars

\* The network where every outbound call succeeds.
NextNetOk ==
    \/ NetTrigger
    \/ \E n \in NetNodes : \E g \in DOMAIN net_gossip[n] : NetGossip(n, g)
    \/ \E n \in NetNodes : \E j \in DOMAIN net_send[n] : NetSendStart(n, j)
    \/ \E n \in NetNodes : \E j \in DOMAIN net_send[n] : NetSendAcquire(n, j)
    \/ \E n \in NetNodes : \E j \in DOMAIN net_send[n] : NetSendCall(n, j)
    \/ \E n \in NetNodes : \E j \in DOMAIN net_send[n] : NetServe(n, j)
    \/ \E n \in NetNodes : \E j \in DOMAIN net_send[n] : NetSendEnd(n, j, TRUE)

\* Every event loop runs a task that can run, every sleep ends, and every
\* call that is answered returns: a step that stays possible is taken.
FairSpecNet == InitNet /\ [][NextNetOk]_vars /\ WF_vars(NextNetOk)

----------------------------------------------------------------------------
(* Reading the log.  An epoch is a stretch of the log that holds no line   *)
(* of UpdateNeighbors.                                                     *)

\* Lines i..j of the log belong to one epoch.
SameEpoch(i, j) == \A k \in i..j : ~IsMarker(log[k])

\* Line j is a message sighting at which message `m` had already been
\* sighted earlier in the same epoch.
SightedBefore(j) ==
    \E i \in 1..(j - 1) : log[i].message = log[j].message /\ SameEpoch(i, j)

\* The gossip_message tasks created with the sighting of log line j.
FanoutsAt(j) == {g \in DOMAIN gossip_tasks : gossip_tasks[g].at = j}

\* The peers the relay tasks of fan-out g go to, in a given list of tasks.
TargetsIn(tasks, g) ==
    {tasks[j].peer_ip : j \in {k \in DOMAIN tasks : tasks[k].parent = g}}

\* Fan-out g takes its first run in this step.
Starts(g) ==
    /\ g \in DOMAIN gossip_tasks
    /\ gossip_tasks[g].pc = "created"
    /\ gossip_tasks'[g].pc # "created"

\* The handler of request req runs in this step.
Handles(req) == req \in requests /\ requests' = requests \ {req}

----------------------------------------------------------------------------
(* Claims *)

\* C1: without an UpdateNeighbors in between, a node begins the fan-out of a
\* message_id at most once: two gossip_message tasks for the same message are
\* separated in the log by a line of UpdateNeighbors.
C1_FanoutAtMostOnce ==
    \A g, h \in DOMAIN gossip_tasks :
        (g < h /\ gossip_tasks[g].message = gossip_tasks[h].message)
            => ~SameEpoch(gossip_tasks[g].at, gossip_tasks[h].at)

\* C2: per epoch and message_id, the first sighting is logged as initiate or
\* received and starts one fan-out; every later sighting of the id in the
\* epoch is logged as duplicate and starts none.
C2_DedupPerEpoch ==
    \A j \in DOMAIN log :
        ~IsMarker(log[j]) =>
            IF SightedBefore(j)
            THEN log[j].event_type = "duplicate" /\ FanoutsAt(j) = {}
            ELSE /\ log[j].event_type \in {"initiate", "received"}
                 /\ Cardinality(FanoutsAt(j)) = 1

\* Two calls from different peers carry the same message and are both waiting
\* for their handler.
Concurrent(r1, r2) ==
    /\ r1 \in requests /\ r2 \in requests
    /\ r1.rpc = "SendMessage" /\ r2.rpc = "SendMessage"
    /\ r1.message = r2.message
    /\ r1.sender_id # host /\ r2.sender_id # host
    /\ r1.sender_id # r2.sender_id

\* In one epoch a delivery from a peer is a duplicate without fan-out when its
\* id was sighted before, and is received with one fan-out otherwise.
C3_PeerSightings ==
    \A j \in DOMAIN log :
        (~IsMarker(log[j]) /\ log[j].sender_id # host) =>
            IF SightedBefore(j)
            THEN log[j].event_type = "duplicate" /\ FanoutsAt(j) = {}
            ELSE log[j].event_type = "received" /\ Cardinality(FanoutsAt(j)) = 1

\* The handler of one of two concurrent calls with an unseen id runs: it logs
\* received, creates the fan-out and leaves the other call a duplicate.
C3_WinnerStep ==
    \A r1, r2 \in requests :
        (/\ Concurrent(r1, r2)
         /\ r1.message \notin received_message_ids
         /\ Handles(r1))
            => /\ Last(log').event_type = "received"
               /\ Len(gossip_tasks') = Len(gossip_tasks) + 1
               /\ r2 \in requests'
               /\ SendMessageCase(r2.sender_id, r2.message,
                                  received_message_ids') = "duplicate"

\* C3: of two concurrent SendMessage calls from different peers with the same
\* unseen message_id, the one whose handler runs first logs received and
\* starts the fan-out, which leaves the other a duplicate; in one epoch a
\* delivery from a peer is received (with one fan-out) exactly when the id
\* was not sighted before, and is a duplicate without fan-out otherwise.
C3_ExactlyOneWins == [](C3_PeerSightings) /\ [][C3_WinnerStep]_vars

\* C3 witness: the call accepted first (from one peer) still waits for its
\* handler while the call accepted second, from another peer with the same
\* message, has been handled as received and has made the first a duplicate.
C3_Witness ==
    /\ ncalls = 2
    /\ Len(log) = 1
    /\ log[1].event_type = "received"
    /\ \E r \in requests :
          /\ r.id = 1
          /\ r.rpc = "SendMessage"
          /\ r.message = log[1].message
          /\ r.sender_id \notin {host, log[1].sender_id}
          /\ SendMessageCase(r.sender_id, r.message, received_message_ids)
                = "duplicate"
          /\ Cardinality(FanoutsAt(1)) = 1

\* The peers fan-out g gets its relay tasks for, when it starts in this step.
NewTargets(g) == TargetsIn(send_tasks', g)

\* No relay task goes to the peer its message was received from.
C4_NoEcho ==
    \A j \in DOMAIN send_tasks : send_tasks[j].peer_ip # send_tasks[j].sender_id

\* A fan-out of a message received from a peer starts: its relay tasks go to
\* the peers of the table other than that peer.
C4_TargetsStep ==
    \A g \in DOMAIN gossip_tasks :
        (Starts(g) /\ gossip_tasks[g].sender_id # host)
            => NewTargets(g) =
                  PeerSet(susceptible_nodes) \ {gossip_tasks[g].sender_id}

\* C4: the fan-out of a message received from peer p creates relay tasks for
\* exactly the peers of the Neighbor Table it iterates other than p, and no
\* relay task ever goes to the peer its message was received from.
C4_ExcludesImmediateSender == [](C4_NoEcho) /\ [][C4_TargetsStep]_vars

\* C4 witness: a fan-out of a message received from a peer p of the table has
\* started, and its relay tasks go to the other peers of the table, of which
\* there is one at least.
C4_Witness ==
    \E g \in DOMAIN gossip_tasks :
        /\ gossip_tasks[g].pc # "created"
        /\ gossip_tasks[g].sender_id \in PeerAddrs \cap PeerSet(susceptible_nodes)
        /\ TargetsIn(send_tasks, g) # {}
        /\ TargetsIn(send_tasks, g) =
              PeerSet(susceptible_nodes) \ {gossip_tasks[g].sender_id}

\* C5 as stated: the fan-out of a self-originated message creates a relay task
\* for every peer of the Neighbor Table, whatever the table lists.
C5_SelfFanoutAllOfN ==
    [][\A g \in DOMAIN gossip_tasks :
          (Starts(g) /\ gossip_tasks[g].sender_id = host)
              => NewTargets(g) = PeerSet(susceptible_nodes)]_vars

\* C5 amended: the fan-out of a self-originated message creates one relay task
\* per edge of the Neighbor Table whose address is not the node's own address
\* (every edge, when the table does not list the node itself).
C5_SelfFanoutAllButSelf ==
    [][\A g \in DOMAIN gossip_tasks :
          (Starts(g) /\ gossip_tasks[g].sender_id = host)
              => /\ NewTargets(g) = PeerSet(susceptible_nodes) \ {host}
                 /\ Len(send_tasks') - Len(send_tasks) =
                       Cardinality({i \in DOMAIN susceptible_nodes :
                                       susceptible_nodes[i][1] # host})]_vars

\* C5 witness: the fan-out of a self-originated message has run over a table
\* that lists the node's own address and has relay tasks for the other peers
\* only.
C5_Witness ==
    \E g \in DOMAIN gossip_tasks :
        /\ gossip_tasks[g].pc # "created"
        /\ gossip_tasks[g].sender_id = host
        /\ host \in PeerSet(susceptible_nodes)
        /\ TargetsIn(send_tasks, g) # {}
        /\ TargetsIn(send_tasks, g) = PeerSet(susceptible_nodes) \ {host}

\* The relay tasks inside the `async with self.semaphore` block.
Holders == {j \in DOMAIN send_tasks : send_tasks[j].pc \in {"sleep", "call"}}

\* The relay tasks whose outbound call is in flight.
InFlight == {j \in DOMAIN send_tasks : send_tasks[j].pc = "call"}

\* C6: the relay tasks in their delay or outbound call are at most
\* MAX_CONCURRENT_SENDS, and the outbound calls in flight are at most the
\* slots taken from the limiter.
C6_ConcurrencyBound ==
    /\ Cardinality(Holders) <= MAX_CONCURRENT_SENDS
    /\ Cardinality(InFlight) <= MAX_CONCURRENT_SENDS - semaphore

\* C6 witness: every slot is taken, a call is in flight and another relay
\* task waits for a slot.
C6_Witness ==
    /\ Cardinality(Holders) = MAX_CONCURRENT_SENDS
    /\ InFlight # {}
    /\ \E j \in DOMAIN send_tasks : send_tasks[j].pc = "waiting"

\* Line j is the first delivery from a peer, after the successful
\* UpdateNeighbors of line u, of a message sighted in the epoch before u.
RedeliveryAfterUpdate(u, j) ==
    /\ u < j
    /\ log[u].event_type = "refreshed"
    /\ ~IsMarker(log[j])
    /\ log[j].sender_id # host
    /\ \A k \in (u + 1)..(j - 1) : log[k].message # log[j].message
    /\ \E i \in 1..(u - 1) :
          log[i].message = log[j].message /\ SameEpoch(i, u - 1)

\* The table installed by the UpdateNeighbors of line u is still the current
\* one, and fan-out g has run over it.
RanOverTableOf(u, g) ==
    /\ \A k \in (u + 1)..Len(log) : ~IsMarker(log[k])
    /\ gossip_tasks[g].pc # "created"

\* C7: the first delivery from a peer of a message_id seen before a
\* successful UpdateNeighbors is logged as received and starts a fan-out,
\* which goes to the peers of the new table other than the sender; the
\* Delivery Tracker is empty right after every UpdateNeighbors.
C7_EpochReset ==
    /\ \A u, j \in DOMAIN log :
          RedeliveryAfterUpdate(u, j) =>
              /\ log[j].event_type = "received"
              /\ Cardinality(FanoutsAt(j)) = 1
              /\ \A g \in FanoutsAt(j) :
                    RanOverTableOf(u, g) =>
                        TargetsIn(send_tasks, g) =
                            PeerSet(susceptible_nodes) \ {log[j].sender_id}
    /\ (log # <<>> /\ IsMarker(Last(log))) => received_message_ids = {}

\* C7 witness: a message seen in one epoch has been delivered again by a peer
\* after a successful UpdateNeighbors, and its new fan-out has relay tasks for
\* peers of the new table.
C7_Witness ==
    \E u, j \in DOMAIN log :
        /\ RedeliveryAfterUpdate(u, j)
        /\ \E g \in FanoutsAt(j) :
              RanOverTableOf(u, g) /\ TargetsIn(send_tasks, g) # {}

\* The handler of an UpdateNeighbors request runs in this step.
HandlesUpdate(req) == Handles(req) /\ req.rpc = "UpdateNeighbors"

\* C8: an UpdateNeighbors whose store write fails (the list itself is well
\* formed, the with-block raises and the except branch prints the error)
\* returns an error Acknowledgment and leaves the Neighbor Table and the
\* Delivery Tracker as they were.
C8_FailedWriteFailsAsAWhole ==
    [][\A req \in requests :
          (/\ HandlesUpdate(req)
           /\ ~HasDuplicatePeer(InstalledNeighbors(req.neighbors))
           /\ Last(log').event_type = "update_error")
              => /\ Last(acks').details = "error"
                 /\ susceptible_nodes' = susceptible_nodes
                 /\ received_message_ids' = received_message_ids]_vars

\* C9: an UpdateNeighbors whose list names a peer_addr twice returns an error
\* Acknowledgment and leaves the Neighbor Table unchanged.
C9_DuplicateListRejected ==
    [][\A req \in requests :
          (HandlesUpdate(req) /\ HasDuplicatePeer(InstalledNeighbors(req.neighbors)))
              => /\ Last(acks').details = "error"
                 /\ susceptible_nodes' = susceptible_nodes]_vars

\* The Acknowledgments of the UpdateNeighbors calls, oldest first.
UpdateAcks == SelectSeq(acks, LAMBDA a : a.rpc = "UpdateNeighbors")

\* The latest UpdateNeighbors returned the success Acknowledgment.
LastUpdateSucceeded ==
    UpdateAcks # <<>> /\ Last(UpdateAcks).details = "updated"

\* C10: once an UpdateNeighbors has returned success, and until the next
\* UpdateNeighbors, the rows of the store are the edges of the in-memory
\* table, in order, and a node started then loads the same table.
C10_StoreMatchesMemory ==
    LastUpdateSucceeded =>
        /\ ned_db.file /\ ned_db.table
        /\ Len(ned_db.rows) = Len(susceptible_nodes)
        /\ \A i \in DOMAIN susceptible_nodes :
              /\ ned_db.rows[i].pod_ip = susceptible_nodes[i][1]
              /\ ned_db.rows[i].weight = susceptible_nodes[i][2]
        /\ get_neighbors_from_db(ned_db) = susceptible_nodes

\* C10 witness: a successful UpdateNeighbors has replaced a stored table of
\* two peers by a different, non-empty one.
C10_Witness ==
    /\ LastUpdateSucceeded
    /\ Len(UpdateAcks) = 2
    /\ susceptible_nodes # <<>>
    /\ susceptible_nodes # <<<<"A", 10>>, <<"B", 20>>>>

----------------------------------------------------------------------------
(* UpdateNeighbors called twice in a row *)

\* The handler of UpdateNeighbors request req runs in this step, the handler
\* that ran before it was an UpdateNeighbors too, and it was given the same
\* edge list (line 42 installs the list it is given, whatever follows).
SecondOfTwo(req) ==
    /\ HandlesUpdate(req)
    /\ log # <<>>
    /\ IsMarker(Last(log))
    /\ susceptible_nodes = InstalledNeighbors(req.neighbors)

\* No pod_ip is held by two rows of the store.
NoRowTwice(db) ==
    \A i, j \in DOMAIN db.rows : db.rows[i].pod_ip = db.rows[j].pod_ip => i = j

\* C11 as stated: the second of two UpdateNeighbors calls in a row with the
\* same edge list leaves the Neighbor Table, in memory and in the durable
\* store, as the first call left it.
C11_SameContentTwice ==
    [][\A req \in requests :
          SecondOfTwo(req)
              => /\ susceptible_nodes' = susceptible_nodes
                 /\ get_neighbors_from_db(ned_db') = get_neighbors_from_db(ned_db)]_vars

\* C11 amended: the second of two UpdateNeighbors calls in a row with the same
\* edge list leaves the in-memory table as the first call left it; it leaves
\* the stored table as the first call left it unless the first call returned
\* an error and the second succeeds (the second then stores the list the
\* first failed to store); and it adds no entry: the table has one entry per
\* edge of the list, and no pod_ip is stored twice.
C11_IdempotentReplace ==
    [][\A req \in requests :
          SecondOfTwo(req)
              => /\ susceptible_nodes' = susceptible_nodes
                 /\ Len(susceptible_nodes') = Len(req.neighbors)
                 /\ NoRowTwice(ned_db')
                 /\ (\/ Last(log).event_type = "refreshed"
                     \/ Last(log').event_type = "update_error")
                        => get_neighbors_from_db(ned_db') =
                              get_neighbors_from_db(ned_db)
                 /\ (/\ Last(log).event_type = "refreshed"
                     /\ Last(log').event_type = "refreshed")
                        => ned_db' = ned_db]_vars

\* C11 witness: an UpdateNeighbors with a list of two peers has succeeded and
\* stored them, no other handler has run since, and a second call with the
\* same list is about to be handled.
C11_Witness ==
    /\ log # <<>>
    /\ Last(log).event_type = "refreshed"
    /\ Len(susceptible_nodes) = 2
    /\ get_neighbors_from_db(ned_db) = susceptible_nodes
    /\ \E req \in requests :
          /\ req.rpc = "UpdateNeighbors"
          /\ InstalledNeighbors(req.neighbors) = susceptible_nodes
          /\ ENABLED UpdateNeighbors(req, "none")

----------------------------------------------------------------------------
(* One fan-out, one version of the table *)

\* The (pod_ip, weight) pairs of a given list of relay tasks that belong to
\* fan-out g.
EdgesIn(tasks, g) ==
    {<<tasks[j].peer_ip, tasks[j].peer_weight>> :
        j \in {k \in DOMAIN tasks : tasks[k].parent = g}}

\* The edges of a table that do not name address a.
EdgesBut(table, a) == {table[i] : i \in {k \in DOMAIN table : table[k][1] # a}}

\* A fan-out starts: its relay tasks are made, one per edge, from the table
\* that is installed at this step, which the step does not change; a fan-out
\* that has started gets no relay task added or changed in its edge by any
\* later step, UpdateNeighbors included.
C12_OneVersionStep ==
    \A g \in DOMAIN gossip_tasks :
        /\ Starts(g) =>
              /\ susceptible_nodes' = susceptible_nodes
              /\ EdgesIn(send_tasks', g) =
                    EdgesBut(susceptible_nodes, gossip_tasks[g].sender_id)
              /\ Len(send_tasks') - Len(send_tasks) =
                    Cardinality({i \in DOMAIN susceptible_nodes :
                       susceptible_nodes[i][1] # gossip_tasks[g].sender_id})
        /\ gossip_tasks[g].pc # "created" =>
              EdgesIn(send_tasks', g) = EdgesIn(send_tasks, g)

\* C12: whatever the interleaving of UpdateNeighbors with the SendMessage
\* handlers, the fan-outs and their relay tasks, the relay tasks of one
\* fan-out are made from one installed version of the Neighbor Table, the one
\* current when the fan-out starts, and a later UpdateNeighbors does not
\* change them.
C12_FanoutReadsOneVersion == [][C12_OneVersionStep]_vars

\* C12 witness: an UpdateNeighbors has replaced the table by an empty one
\* while a relay task of a fan-out made from the old table of two peers is
\* waiting, sleeping or in its call; the fan-out still has its two targets.
C12_Witness ==
    \E g \in DOMAIN gossip_tasks :
        /\ Cardinality(TargetsIn(send_tasks, g)) = 2
        /\ \E j \in DOMAIN send_tasks :
              /\ send_tasks[j].parent = g
              /\ send_tasks[j].pc \in {"waiting", "sleep", "call"}
        /\ \E u \in (gossip_tasks[g].at + 1)..Len(log) :
              log[u].event_type = "refreshed"
        /\ susceptible_nodes = <<>>

----------------------------------------------------------------------------
(* A relay whose outbound call fails *)

\* The outbound call of relay task j fails in this step.
Fails(j) ==
    /\ j \in DOMAIN send_tasks
    /\ send_tasks[j].pc = "call"
    /\ send_tasks'[j].pc = "failed"

\* The failing step ends task j only: every other relay task is as before, no
\* task and no outbound call is added, the Acknowledgments returned and the
\* calls waiting for their handler are as before, and the slot is given back.
\* A task that has failed is never run again.
C13_FailureStep ==
    \A j \in DOMAIN send_tasks :
        /\ Fails(j) =>
              /\ \A k \in DOMAIN send_tasks : k # j => send_tasks'[k] = send_tasks[k]
              /\ Len(send_tasks') = Len(send_tasks)
              /\ outbox' = outbox
              /\ gossip_tasks' = gossip_tasks
              /\ acks' = acks
              /\ requests' = requests
              /\ semaphore' = semaphore + 1
        /\ send_tasks[j].pc = "failed" => send_tasks'[j] = send_tasks[j]

\* The node goes on: every relay task that has not ended can take its next
\* step (a waiting one as soon as a holder leaves), every call waiting for its
\* handler can be handled, and no task has made more than one outbound call.
C13_NodeGoesOn ==
    /\ \A k \in DOMAIN send_tasks :
          /\ send_tasks[k].pc = "created" => ENABLED SendStart(k)
          /\ send_tasks[k].pc = "waiting" =>
                (ENABLED SendAcquire(k) \/ Cardinality(Holders) = MAX_CONCURRENT_SENDS)
          /\ send_tasks[k].pc = "sleep" => ENABLED SendCall(k)
          /\ send_tasks[k].pc = "call" => ENABLED SendEnd(k, TRUE)
          /\ Cardinality({o \in outbox : o.task = k}) <= 1
    /\ \A req \in requests :
          ENABLED SendMessage(req) \/ ENABLED UpdateNeighbors(req, "none")

\* C13: when the outbound call of a relay task fails, the other relay tasks of
\* the fan-out are untouched and go on to their own calls, the failed relay is
\* not tried again, the Acknowledgments already returned are unchanged, and
\* the node keeps handling calls and running tasks.
C13_RelayFailureIsLocal == [](C13_NodeGoesOn) /\ [][C13_FailureStep]_vars

\* C13 witness: of the two relay tasks of one fan-out the first has failed and
\* the second has been sent, and the caller got the one Acknowledgment of the
\* accepted message.
C13_Witness ==
    \E j, k \in DOMAIN send_tasks :
        /\ j < k
        /\ send_tasks[j].parent = send_tasks[k].parent
        /\ send_tasks[j].pc = "failed"
        /\ send_tasks[k].pc = "sent"
        /\ Cardinality({o \in outbox : o.task \in {j, k}}) = 2
        /\ acks = <<Ack("SendMessage", "initiate")>>

----------------------------------------------------------------------------
(* The Acknowledgment of an accepted message *)

\* The handler of SendMessage request req runs in this step and accepts the
\* message (initiate or received).
Accepts(req) ==
    /\ Handles(req)
    /\ req.rpc = "SendMessage"
    /\ Last(log').event_type \in {"initiate", "received"}

\* The accepting step returns the Acknowledgment and leaves the fan-out it
\* creates unstarted; it takes no slot, makes no relay task and no outbound
\* call, and ends none.
C14_AcceptStep ==
    \A req \in requests :
        Accepts(req) =>
            /\ acks' = Append(acks, Ack("SendMessage", Last(log').event_type))
            /\ Len(gossip_tasks') = Len(gossip_tasks) + 1
            /\ Last(gossip_tasks').pc = "created"
            /\ send_tasks' = send_tasks
            /\ semaphore' = semaphore
            /\ outbox' = outbox

\* The handler of a SendMessage call can run in every state, whatever the
\* limiter holds and whatever calls are in flight.
C14_HandlerNeverBlocked ==
    \A req \in requests : req.rpc = "SendMessage" => ENABLED SendMessage(req)

\* C14: SendMessage returns the Acknowledgment of an accepted message in the
\* step that accepts it, before the fan-out it creates has run and without
\* waiting for a slot or for an outbound call; the handler runs even when
\* every slot is taken or a call to a neighbor is unanswered.
C14_AckWithoutWaiting == [](C14_HandlerNeverBlocked) /\ [][C14_AcceptStep]_vars

\* C14 witness: every slot is taken by the relay tasks of an earlier fan-out,
\* whose calls are unanswered, and a second message has been accepted and
\* acknowledged; its fan-out has not run.
C14_Witness ==
    /\ semaphore = 0
    /\ Cardinality(InFlight) = MAX_CONCURRENT_SENDS
    /\ Len(acks) = 2
    /\ Last(acks).details \in {"initiate", "received"}
    /\ Len(gossip_tasks) = 2
    /\ gossip_tasks[2].pc = "created"
    /\ \A j \in InFlight : send_tasks[j].parent = 1

----------------------------------------------------------------------------
(* Rounds *)

\* The relay tasks of fan-out g.
RelaysOf(g) == {j \in DOMAIN send_tasks : send_tasks[j].parent = g}

\* The handler of a SendMessage call logs round 0 for a self-originated
\* message and the incoming round otherwise.
C15_LoggedStep ==
    \A req \in requests :
        (Handles(req) /\ req.rpc = "SendMessage") =>
            /\ Last(log').message = req.message
            /\ Last(log').round_count =
                  IF Last(log').event_type = "initiate" THEN 0 ELSE req.round_count

\* Every fan-out carries round 0 when its message was logged as initiate and
\* the logged round plus one when it was logged as received; every relay task
\* is given the round of its fan-out, which is the round_count of its call.
C15_CarriedRounds ==
    \A g \in DOMAIN gossip_tasks :
          LET e == log[gossip_tasks[g].at] IN
             /\ e.event_type \in {"initiate", "received"}
             /\ e.event_type = "initiate" =>
                   e.round_count = 0 /\ gossip_tasks[g].round_count = 0
             /\ e.event_type = "received" =>
                   gossip_tasks[g].round_count = e.round_count + 1
             /\ \A j \in RelaysOf(g) :
                   send_tasks[j].round_count = gossip_tasks[g].round_count

\* C15: a self-originated message is logged with round 0 and each of its
\* relays carries round 0; a message received with incoming round r is logged
\* as received with round r and each of its relays carries round r + 1.
C15_Rounds == [](C15_CarriedRounds) /\ [][C15_LoggedStep]_vars

\* C15 witness: a message received with incoming round 1 has relay tasks with
\* round 2, and a self-originated message, whose call carried round 1 too,
\* has relay tasks with round 0.
C15_Witness ==
    \E g, h \in DOMAIN gossip_tasks :
        /\ log[gossip_tasks[g].at].event_type = "received"
        /\ log[gossip_tasks[g].at].round_count = 1
        /\ \E j \in RelaysOf(g) : send_tasks[j].round_count = 2
        /\ log[gossip_tasks[h].at].event_type = "initiate"
        /\ \E j \in RelaysOf(h) : send_tasks[j].round_count = 0

----------------------------------------------------------------------------
(* The duplicate branch *)

\* C16: the handler of a SendMessage call from a sender other than the node
\* itself, for a message_id that is in the Delivery Tracker, returns the
\* duplicate Acknowledgment, logs one duplicate event (with the incoming
\* round), creates no fan-out and no relay task, and leaves the tracker, the
\* Neighbor Table and the store as they were.
C16_DuplicateFrame ==
    [][\A req \in requests :
          (/\ Handles(req)
           /\ req.rpc = "SendMessage"
           /\ req.sender_id # host
           /\ req.message \in received_message_ids)
              => /\ acks' = Append(acks, Ack("SendMessage", "duplicate"))
                 /\ log' = Append(log, Event("duplicate", req.message,
                                             req.sender_id, req.round_count))
                 /\ gossip_tasks' = gossip_tasks
                 /\ send_tasks' = send_tasks
                 /\ outbox' = outbox
                 /\ received_message_ids' = received_message_ids
                 /\ susceptible_nodes' = susceptible_nodes
                 /\ ned_db' = ned_db]_vars

\* C16 witness: a message received from one peer and relayed to the other has
\* come again, from the other peer, and the last line of the log is its
\* duplicate event; there is the one fan-out of the first sighting.
C16_Witness ==
    /\ Len(log) = 2
    /\ log[1].event_type = "received"
    /\ log[2].event_type = "duplicate"
    /\ log[2].message = log[1].message
    /\ log[2].sender_id # log[1].sender_id
    /\ Last(acks) = Ack("SendMessage", "duplicate")
    /\ Len(gossip_tasks) = 1
    /\ TargetsIn(send_tasks, 1) = {log[2].sender_id}

----------------------------------------------------------------------------
(* The originator branch *)

\* C20: the handler of a SendMessage call whose sender_id is the node's own
\* address takes the originator branch whatever the Delivery Tracker holds:
\* it marks the id seen, logs initiate with round 0, creates a fan-out with
\* round 0 and returns the Acknowledgment of an initiated message.
C20_OriginatorAlways ==
    [][\A req \in requests :
          (/\ Handles(req)
           /\ req.rpc = "SendMessage"
           /\ req.sender_id = host)
              => /\ received_message_ids' = received_message_ids \cup {req.message}
                 /\ log' = Append(log, Event("initiate", req.message, host, 0))
                 /\ acks' = Append(acks, Ack("SendMessage", "initiate"))
                 /\ Len(gossip_tasks') = Len(gossip_tasks) + 1
                 /\ Last(gossip_tasks').message = req.message
                 /\ Last(gossip_tasks').sender_id = host
                 /\ Last(gossip_tasks').round_count = 0
                 /\ Last(gossip_tasks').pc = "created"]_vars

\* C20 witness: a message received from a peer, and so in the tracker, has
\* then come in a self-addressed call of the same epoch; it was logged as
\* initiate and its second fan-out has made relay tasks with round 0.
C20_Witness ==
    /\ Len(log) = 2
    /\ log[1].event_type = "received"
    /\ log[2].event_type = "initiate"
    /\ log[2].message = log[1].message
    /\ Len(gossip_tasks) = 2
    /\ gossip_tasks[2].at = 2
    /\ \E j \in DOMAIN send_tasks :
          send_tasks[j].parent = 2 /\ send_tasks[j].round_count = 0

----------------------------------------------------------------------------
(* The table at node start *)

\* No UpdateNeighbors has been handled: the table and the store are those of
\* the start.
NotYetUpdated == \A k \in DOMAIN log : ~IsMarker(log[k])

\* The store is a file that sqlite can read a NEIGHBORS table from.
Readable(db) == db.file /\ ~db.corrupt /\ db.table

\* C17: a node started on a store that is absent or cannot be read (damaged
\* file, no NEIGHBORS table) has an empty Neighbor Table, and a node started
\* on a readable store has the stored edges, in order, as its table; either
\* way the node runs: every call it has accepted can be handled.
C17_StartTable ==
    /\ NotYetUpdated =>
          IF Readable(ned_db)
          THEN /\ Len(susceptible_nodes) = Len(ned_db.rows)
               /\ \A i \in DOMAIN ned_db.rows :
                     susceptible_nodes[i] =
                        <<ned_db.rows[i].pod_ip, ned_db.rows[i].weight>>
          ELSE susceptible_nodes = <<>>
    /\ \A req \in requests :
          ENABLED SendMessage(req) \/ ENABLED UpdateNeighbors(req, "none")

\* C17 witness: a node started on a damaged file has handled a self-addressed
\* SendMessage; the fan-out ran over the empty table and made no relay task.
C17_Witness ==
    /\ ned_db.file /\ ned_db.corrupt
    /\ NotYetUpdated
    /\ Len(log) = 1
    /\ log[1].event_type = "initiate"
    /\ gossip_tasks[1].pc = "gather"
    /\ send_tasks = <<>>
    /\ susceptible_nodes = <<>>

----------------------------------------------------------------------------
(* The network: one broadcast over fixed tables *)

\* The relay tasks of node n whose outbound call has been issued.
NetCalls(n) ==
    {j \in DOMAIN net_send[n] :
        net_send[n][j].pc \in {"call", "answered", "sent", "failed"}}

RECURSIVE TotalCalls(_)
TotalCalls(S) ==
    IF S = {} THEN 0
    ELSE LET n == CHOOSE x \in S : TRUE
         IN  Cardinality(NetCalls(n)) + TotalCalls(S \ {n})

RECURSIVE TotalNeighbors(_)
TotalNeighbors(S) ==
    IF S = {} THEN 0
    ELSE LET n == CHOOSE x \in S : TRUE
         IN  Len(net_tables[n]) + TotalNeighbors(S \ {n})

\* C18: with fixed tables forming any directed graph and one self-addressed
\* trigger, every node begins at most one fan-out of the message, and the
\* relay calls made in the whole network are at most the sum of the nodes'
\* neighbor counts.
C18_OneFanoutPerNode ==
    /\ \A n \in NetNodes : Len(net_gossip[n]) <= 1
    /\ TotalCalls(NetNodes) <= TotalNeighbors(NetNodes)

----------------------------------------------------------------------------
(* The network: who gets the broadcast *)

\* The nodes the edges of the tables lead to from the nodes of S.
NetSucc(S) == UNION {PeerSet(net_tables[n]) : n \in S}

\* The nodes reached from the nodes of S along at most k more edges.
RECURSIVE ReachIn(_, _)
ReachIn(S, k) == IF k = 0 THEN S ELSE ReachIn(S \cup NetSucc(S), k - 1)

\* The nodes reachable from the trigger node along one edge or more.
NetReachable == ReachIn(NetSucc({host}), Cardinality(NetNodes))

\* The received events node n has logged.
ReceivedAt(n) ==
    {k \in DOMAIN net_log[n] : net_log[n][k].event_type = "received"}

\* Node n has the message in its tracker and has logged one received event.
GotOnce(n) == NetMessage \in net_seen[n] /\ Cardinality(ReceivedAt(n)) = 1

\* The trigger was given and no fan-out or relay task is left to run.
NetQuiet ==
    /\ net_trigger = 1
    /\ \A n \in NetNodes :
          /\ \A g \in DOMAIN net_gossip[n] : net_gossip[n][g].pc # "created"
          /\ \A j \in DOMAIN net_send[n] : net_send[n][j].pc \in {"sent", "failed"}

\* C19 as stated: when all calls succeed, once the broadcast has run out every
\* node reachable from the trigger node along the edges has marked the message
\* seen and logged exactly one received event, and a node that is not
\* reachable never logs a received event (nor, unless it is the trigger node,
\* marks the message seen).
C19_ReachableGetOnce ==
    /\ NetQuiet => \A n \in NetReachable : GotOnce(n)
    /\ \A n \in NetNodes \ NetReachable :
          /\ ReceivedAt(n) = {}
          /\ n # host => NetMessage \notin net_seen[n]

\* What holds of the broadcast all the time: no node logs two received events,
\* the trigger node logs none (it logs initiate), a node other than the
\* trigger node has the message in its tracker exactly when it has logged its
\* received event, a node that is not reachable from the trigger node logs
\* nothing, and once the broadcast has run out every reachable node other
\* than the trigger node has got the message once.
C19_Safe ==
    /\ \A n \in NetNodes : Cardinality(ReceivedAt(n)) <= 1
    /\ ReceivedAt(host) = {}
    /\ net_trigger = 1 =>
          NetMessage \in net_seen[host] /\ net_log[host][1].event_type = "initiate"
    /\ \A n \in NetNodes \ {host} : NetMessage \in net_seen[n] <=> GotOnce(n)
    /\ \A n \in NetNodes \ (NetReachable \cup {host}) :
          NetMessage \notin net_seen[n] /\ net_log[n] = <<>>
    /\ NetQuiet => \A n \in NetReachable \ {host} : GotOnce(n)

\* Every reachable node other than the trigger node has got the message once,
\* and the broadcast has run out.
C19_Done == NetQuiet /\ \A n \in NetReachable \ {host} : GotOnce(n)

\* C19 amended: with fixed tables and every outbound call succeeding, after
\* the one self-addressed trigger at node X every node other than X that is
\* reachable from X along the edges eventually marks the message seen and
\* logs exactly one received event, for good; X marks it seen, logs initiate
\* and never logs a received event, even when it is reachable from itself on
\* a cycle; a node that is not reachable never sees the message.
C19_ReachOthersOnce == [](C19_Safe) /\ <>[](C19_Done)

\* C19 witness: on a cycle X -> Y -> Z -> X the broadcast has run out; Y and
\* Z have got the message once, and the relay of Z to X was logged by X as a
\* duplicate after its initiate.
C19_Witness ==
    /\ NetQuiet
    /\ "Y" \in PeerSet(net_tables[host])
    /\ "Z" \in PeerSet(net_tables["Y"])
    /\ host \in PeerSet(net_tables["Z"])
    /\ GotOnce("Y") /\ GotOnce("Z")
    /\ Len(net_log[host]) >= 2
    /\ net_log[host][1].event_type = "initiate"
    /\ \E k \in DOMAIN net_log[host] :
          /\ net_log[host][k].event_type = "duplicate"
          /\ net_log[host][k].sender_id = "Z"

----------------------------------------------------------------------------
(* The Delivery Tracker between two UpdateNeighbors *)

\* The handler of some UpdateNeighbors request runs in this step.
SomeUpdateHandled == \E req \in requests : HandlesUpdate(req)

\* C21: a step of SendMessage, of a fan-out or of a relay task removes no
\* message_id from the Delivery Tracker, so an id that is seen stays seen
\* until the next UpdateNeighbors; a step of UpdateNeighbors empties the
\* tracker, whatever Acknowledgment it returns.
C21_TrackerGrows ==
    [][/\ SomeUpdateHandled => received_message_ids' = {}
       /\ ~SomeUpdateHandled => received_message_ids \subseteq received_message_ids'
       /\ received_message_ids' # received_message_ids =>
             \/ SomeUpdateHandled
             \/ \E req \in requests :
                   /\ Handles(req)
                   /\ req.rpc = "SendMessage"
                   /\ received_message_ids' = received_message_ids \cup {req.message}]_vars

\* C21 witness: a message was marked seen, its relay tasks have run to their
\* end with the id still in the tracker, and an UpdateNeighbors has then
\* emptied the tracker.
C21_Witness ==
    /\ Len(log) = 2
    /\ log[1].event_type \in {"initiate", "received"}
    /\ IsMarker(log[2])
    /\ send_tasks # <<>>
    /\ \A j \in DOMAIN send_tasks : send_tasks[j].pc \in {"sent", "failed"}
    /\ received_message_ids = {}

----------------------------------------------------------------------------
(* Who writes the Neighbor Table *)

\* C22: a step that is not the handler of an UpdateNeighbors (SendMessage, the
\* start of a fan-out, every step of a relay task) leaves the Neighbor Table
\* as it is, and the handler of UpdateNeighbors(L) makes the table the edges
\* of L, one per Neighbor message and in the order of L, whatever the table
\* held before and whatever Acknowledgment the call returns.
C22_OnlyUpdateWritesTable ==
    [][/\ ~SomeUpdateHandled => susceptible_nodes' = susceptible_nodes
       /\ \A req \in requests :
             HandlesUpdate(req) =>
                /\ Len(susceptible_nodes') = Len(req.neighbors)
                /\ \A i \in DOMAIN req.neighbors :
                      susceptible_nodes'[i] =
                         <<req.neighbors[i].pod_ip, req.neighbors[i].weight>>]_vars

\* C22 witness: a table of two peers loaded at start was used by a fan-out
\* whose relay tasks have made their calls, and an UpdateNeighbors with the
\* empty list has left no edge of it.
C22_Witness ==
    /\ Len(ned_db.rows) = 0
    /\ susceptible_nodes = <<>>
    /\ \E k \in DOMAIN log : log[k].event_type = "refreshed"
    /\ \E g \in DOMAIN gossip_tasks : Cardinality(TargetsIn(send_tasks, g)) = 2
    /\ \E j \in DOMAIN send_tasks : send_tasks[j].pc = "sent"

----------------------------------------------------------------------------
(* Peers listed twice *)

\* C23: the in-memory Neighbor Table never holds two edges with the same
\* peer_addr, and no fan-out has two relay tasks for one peer address.
C23_NoPeerTwice ==
    /\ ~HasDuplicatePeer(susceptible_nodes)
    /\ \A j, k \in DOMAIN send_tasks :
          (/\ send_tasks[j].parent = send_tasks[k].parent
           /\ send_tasks[j].peer_ip = send_tasks[k].peer_ip) => j = k

----------------------------------------------------------------------------
(* Relay tasks and a later UpdateNeighbors *)

\* What a relay task was created with.
Target(t) == <<t.parent, t.message, t.peer_ip, t.peer_weight, t.round_count>>

\* C24: the handler of an UpdateNeighbors ends, adds and moves no relay task
\* and no fan-out and makes no call; no step changes the peer, weight or
\* round a relay task was created with, and the call a task makes carries
\* them; a fan-out that starts makes its relay tasks from the table installed
\* at that step.
C24_UpdateKeepsTasks ==
    [][/\ SomeUpdateHandled =>
             /\ send_tasks' = send_tasks
             /\ gossip_tasks' = gossip_tasks
             /\ semaphore' = semaphore
             /\ outbox' = outbox
       /\ \A j \in DOMAIN send_tasks :
             /\ j \in DOMAIN send_tasks'
             /\ Target(send_tasks'[j]) = Target(send_tasks[j])
       /\ \A o \in outbox' \ outbox :
             /\ o.to = send_tasks[o.task].peer_ip
             /\ o.latency_ms = send_tasks[o.task].peer_weight
             /\ o.round_count = send_tasks[o.task].round_count
       /\ \A g \in DOMAIN gossip_tasks :
             (gossip_tasks[g].pc = "created" /\ gossip_tasks'[g].pc # "created") =>
                EdgesIn(send_tasks', g) =
                   EdgesBut(susceptible_nodes, gossip_tasks[g].sender_id)]_vars

\* C24 witness: relay tasks were made for the two peers of the table and an
\* UpdateNeighbors has then installed the empty table; the call to A has been
\* made with the weight of its edge, and the task for B is still in its delay,
\* its peer and weight those of the edge it was made from.
C24_Witness ==
    /\ susceptible_nodes = <<>>
    /\ \E k \in DOMAIN log : IsMarker(log[k])
    /\ \E j \in DOMAIN send_tasks :
          /\ send_tasks[j].pc = "sent"
          /\ \E o \in outbox :
                o.task = j /\ o.to = EA.pod_ip /\ o.latency_ms = EA.weight
    /\ \E j \in DOMAIN send_tasks :
          /\ send_tasks[j].pc = "sleep"
          /\ send_tasks[j].peer_ip = EB.pod_ip
          /\ send_tasks[j].peer_weight = EB.weight

----------------------------------------------------------------------------
(* The order of a relay task's steps *)

\* The relay tasks whose outbound call has been issued.
Called == {o.task : o \in outbox}

\* A relay task moves one way only: it takes a slot when one is free (at its
\* first run or after waiting), then ends its delay by issuing its one call,
\* the slot still taken, and gives the slot back when the call has ended.
C25_TaskStep ==
    \A j \in DOMAIN send_tasks :
        LET a == send_tasks[j].pc
            b == send_tasks'[j].pc
        IN  a # b =>
              \/ /\ a = "created" /\ b = "waiting"
                 /\ semaphore = 0 /\ semaphore' = semaphore
                 /\ outbox' = outbox
              \/ /\ a \in {"created", "waiting"} /\ b = "sleep"
                 /\ semaphore > 0 /\ semaphore' = semaphore - 1
                 /\ outbox' = outbox
              \/ /\ a = "sleep" /\ b = "call"
                 /\ semaphore' = semaphore
                 /\ j \notin Called
                 /\ \E o \in outbox' : o.task = j /\ outbox' = outbox \cup {o}
              \/ /\ a = "call" /\ b \in {"sent", "failed"}
                 /\ semaphore' = semaphore + 1
                 /\ outbox' = outbox

\* C25: every relay task takes a limiter slot, waits out the delay of its
\* edge, makes its outbound call and gives the slot back, in that order: no
\* call has been issued by a task that has not taken a slot and ended its
\* delay, and a slot comes back only when the call of the task holding it has
\* ended.
C25_SlotDelayCallRelease ==
    /\ [](\A j \in DOMAIN send_tasks :
             j \in Called <=> send_tasks[j].pc \in {"call", "sent", "failed"})
    /\ [][/\ C25_TaskStep
          /\ outbox' # outbox =>
                \E j \in DOMAIN send_tasks :
                    send_tasks[j].pc = "sleep" /\ send_tasks'[j].pc = "call"
          /\ semaphore' > semaphore =>
                \E j \in DOMAIN send_tasks :
                    send_tasks[j].pc = "call" /\ send_tasks'[j].pc \in {"sent", "failed"}]_vars

\* C25 witness: every slot is taken; one task holding a slot has issued its
\* call, the other is still in its delay and has issued none, and a third
\* task waits for a slot.
C25_Witness ==
    /\ semaphore = 0
    /\ \E j \in DOMAIN send_tasks : send_tasks[j].pc = "call" /\ j \in Called
    /\ \E j \in DOMAIN send_tasks : send_tasks[j].pc = "sleep" /\ j \notin Called
    /\ \E j \in DOMAIN send_tasks : send_tasks[j].pc = "waiting"

----------------------------------------------------------------------------
(* The timestamp of an outbound call *)

\* The outbound calls issued in this step.
Issued == outbox' \ outbox

\* C26: the timestamp an outbound call carries is the time of the relay
\* task's first run, read before the task takes or waits for a slot; the call
\* is issued when the delay of the edge, and any wait for a slot, have
\* passed since, so the time a receiver measures from it includes both.
C26_StampedAtFirstRun ==
    [][/\ \A j \in DOMAIN send_tasks :
             (send_tasks[j].pc = "created" /\ send_tasks'[j].pc # "created") =>
                /\ send_tasks'[j].send_timestamp = clock
                /\ send_tasks'[j].pc \in {"waiting", "sleep"}
       /\ \A o \in Issued :
             /\ o.timestamp = send_tasks[o.task].send_timestamp
             /\ o.timestamp + Delay(o.latency_ms) <= clock']_vars

\* C26 witness: a call has been issued by a task that waited for a slot: its
\* delay ended later than the delay of its edge after its timestamp.
C26_Witness ==
    \E o \in outbox :
        /\ send_tasks[o.task].pc \in {"call", "sent", "failed"}
        /\ send_tasks[o.task].wake > o.timestamp + Delay(o.latency_ms)
        /\ clock >= send_tasks[o.task].wake

\* C26 as stated: the timestamp of every outbound call is the time at which
\* the call is issued.
C26_StampedAtCall ==
    [][\A o \in Issued : o.timestamp = clock']_vars

----------------------------------------------------------------------------
(* Who an outbound call names as sender *)

\* C27: every outbound call names the relaying node, not the peer the
\* message came from, as its sender and carries the weight of the edge it
\* goes over as link latency; a fan-out started for the sender the call
\* names, over whatever table the receiver holds, therefore leaves out the
\* edges to the relaying node and no other edge.
C27_SenderIsRelayer ==
    \A o \in outbox :
        /\ o.sender_id = host
        /\ o.to = send_tasks[o.task].peer_ip
        /\ o.latency_ms = send_tasks[o.task].peer_weight
        /\ \A l \in NeighborLists :
              LET table == InstalledNeighbors(l)
                  made  == FanoutEdges(table, o.sender_id)
              IN  /\ \A i \in DOMAIN made : made[i][1] # host
                  /\ {made[i] : i \in DOMAIN made} = EdgesBut(table, host)

\* C27 witness: a message that came from A has been relayed to B, over the
\* edge of weight 20, in a call that names the node itself as sender.
C27_Witness ==
    \E o \in outbox :
        /\ send_tasks[o.task].sender_id = "A"
        /\ send_tasks[o.task].pc = "sent"
        /\ o.to = EB.pod_ip
        /\ o.sender_id = host
        /\ o.latency_ms = EB.weight

----------------------------------------------------------------------------
(* A fan-out without a peer to relay to *)

\* The fan-out of task g starts in this step.
FanoutStarts(g) ==
    /\ g \in DOMAIN gossip_tasks
    /\ gossip_tasks[g].pc = "created"
    /\ gossip_tasks'[g].pc # "created"

\* C28: when the table holds no edge, or only edges to the sender, a fresh
\* message is accepted as any other (seen, success Acknowledgment, a fan-out
\* to come); the fan-out makes no relay task, takes no slot and prints a line
\* that says so.
C28_NoOpFanoutLogged ==
    [][/\ \A req \in requests :
             (/\ Accepts(req)
              /\ FanoutEdges(susceptible_nodes, req.sender_id) = <<>>) =>
                /\ req.message \in received_message_ids'
                /\ Last(acks').details \in {"initiate", "received"}
                /\ send_tasks' = send_tasks
                /\ semaphore' = semaphore
       /\ \A g \in DOMAIN gossip_tasks :
             (/\ FanoutStarts(g)
              /\ FanoutEdges(susceptible_nodes, gossip_tasks[g].sender_id) = <<>>) =>
                /\ send_tasks' = send_tasks
                /\ semaphore' = semaphore
                /\ Len(log') = Len(log) + 1]_vars

----------------------------------------------------------------------------
(* The two-phase update of a pod *)

\* C29: when the two-phase update of the pod has succeeded (ned.db written,
\* notification acknowledged), the node's table and the NEIGHBORS table of
\* ned.db both hold the list that was pushed for the pod.
C29_PushedListHeld ==
    plane.phase = "synchronized" =>
        /\ susceptible_nodes = plane.neighbors
        /\ get_neighbors_from_db(ned_db) = plane.neighbors

----------------------------------------------------------------------------
(* The slots of the limiter *)

\* C30: the free slots and the relay tasks in their delay or call add up to
\* the capacity in every state; the end of a call, by return or by exception,
\* gives one slot back; so when no relay task is in its delay or call every
\* slot is free.
C30_SlotsConserved ==
    /\ [](/\ semaphore + Cardinality(Holders) = MAX_CONCURRENT_SENDS
          /\ semaphore \in 0..MAX_CONCURRENT_SENDS
          /\ Holders = {} => semaphore = MAX_CONCURRENT_SENDS)
    /\ [][\A j \in DOMAIN send_tasks :
             (send_tasks[j].pc = "call" /\ send_tasks'[j].pc \in {"sent", "failed"}) =>
                semaphore' = semaphore + 1]_vars

\* C30 witness: three relay tasks, one more than there are slots, have all
\* ended, one by a call that returned and one by a call that raised, and
\* every slot is free.
C30_Witness ==
    /\ Len(send_tasks) = 3
    /\ \A j \in DOMAIN send_tasks : send_tasks[j].pc \in {"sent", "failed"}
    /\ \E j \in DOMAIN send_tasks : send_tasks[j].pc = "sent"
    /\ \E j \in DOMAIN send_tasks : send_tasks[j].pc = "failed"
    /\ semaphore = MAX_CONCURRENT_SENDS

----------------------------------------------------------------------------
(* An UpdateNeighbors between the acceptance and the fan-out *)

\* An UpdateNeighbors has been handled since the message of fan-out g was
\* accepted.
UpdatedSince(g) ==
    \E k \in DOMAIN log : k > gossip_tasks[g].at /\ IsMarker(log[k])

\* The message of fan-out g has not been sighted since the last
\* UpdateNeighbors.
NotSightedAgain(g) ==
    \A k \in DOMAIN log :
        (k > gossip_tasks[g].at /\ log[k].message = gossip_tasks[g].message) =>
            \E i \in (k + 1)..Len(log) : IsMarker(log[i])

\* C31: a fan-out that starts makes its relay tasks from the table installed
\* at that step, whatever table was installed when its message was accepted;
\* when an UpdateNeighbors was handled in between, the tasks go to the peers
\* of the table that update installed, and the id of the message is not in
\* the Delivery Tracker unless the message was sighted again since.
C31_FanoutUsesTableAtStart ==
    [][\A g \in DOMAIN gossip_tasks :
          FanoutStarts(g) =>
             /\ EdgesIn(send_tasks', g) =
                   EdgesBut(susceptible_nodes, gossip_tasks[g].sender_id)
             /\ (UpdatedSince(g) /\ NotSightedAgain(g)) =>
                   gossip_tasks[g].message \notin received_message_ids']_vars

\* C31 witness: the node started without a NEIGHBORS table, so with an empty
\* table; a message was accepted, an UpdateNeighbors was handled next (its
\* store write failed, so the store shows the start), and the fan-out of the
\* message has then made relay tasks for A and B, the peers of the table the
\* update installed, while the tracker is empty.
C31_Witness ==
    /\ ~ned_db.table
    /\ Len(log) = 2
    /\ log[1].event_type \in {"initiate", "received"}
    /\ IsMarker(log[2])
    /\ gossip_tasks[1].pc # "created"
    /\ gossip_tasks[1].at = 1
    /\ susceptible_nodes = <<<<"A", 10>>, <<"B", 20>>>>
    /\ EdgesIn(send_tasks, 1) = EdgesBut(susceptible_nodes, log[1].sender_id)
    /\ EdgesIn(send_tasks, 1) # {}
    /\ received_message_ids = {}

----------------------------------------------------------------------------
(* run_command_with_retry *)

\* The attempts made so far that raised.
FailedAttempts == {i \in DOMAIN retry.outcomes : retry.outcomes[i] # "ok"}

\* C32: the command is run at most `retries` times and never again after an
\* attempt that succeeded; (True, output) is returned at the first attempt
\* that succeeds, (False, message) only when `retries` attempts were made and
\* all failed; every attempt but the first comes after a sleep, and no sleep
\* comes after the last attempt the loop can make.
C32_RetryContract ==
    /\ Len(retry.outcomes) <= retry.retries
    /\ \A i \in DOMAIN retry.outcomes : i < Len(retry.outcomes) => i \in FailedAttempts
    /\ Len(retry.sleeps) <= Len(retry.outcomes)
    /\ Len(retry.sleeps) >= Len(retry.outcomes) - 1
    /\ \A k \in DOMAIN retry.sleeps :
          /\ retry.sleeps[k] = k - 1
          /\ k \in FailedAttempts
          /\ k < retry.retries
    /\ retry.pc = "returned" =>
          /\ retry.ret[1] <=> (retry.outcomes # <<>> /\ Last(retry.outcomes) = "ok")
          /\ ~retry.ret[1] =>
                /\ Len(retry.outcomes) = retry.retries
                /\ FailedAttempts = DOMAIN retry.outcomes
                /\ retry.ret[2][2] = retry.retries
          /\ retry.outcomes # <<>> => Len(retry.sleeps) = Len(retry.outcomes) - 1

\* C32 witness: called with three retries, the command failed three times,
\* by exit code, by timeout and by another exception, with a sleep after the
\* first and after the second attempt, and (False, message) was returned.
C32_Witness ==
    /\ retry.pc = "returned"
    /\ retry.retries = 3
    /\ retry.outcomes = <<"exit", "timeout", "error">>
    /\ retry.sleeps = <<0, 1>>
    /\ retry.ret = <<FALSE, <<"Failed after", 3, "Unexpected error">>>>

----------------------------------------------------------------------------
(* update_all_pods *)

\* The pods whose notification has been started.
Notified == {p \in batch.mapping : batch.notify[p] # "none"}

\* C33: a pod's notification is started only when its own DB update has
\* succeeded; in prepare.py no notification is started while a DB update is
\* still running, and none at all when no DB update succeeded, the function
\* then returning False; the function returns when every call it started has
\* returned, and returns True exactly when the DB update and the notification
\* of every pod of the mapping succeeded.
C33_NotifyAfterOwnUpdate ==
    /\ \A p \in Notified : batch.db[p] = "ok"
    /\ (batch.script = "prepare" /\ Notified # {}) => Phase1Over(batch.db)
    /\ batch.pc = "returned" =>
          /\ Phase1Over(batch.db)
          /\ \A p \in batch.mapping : batch.notify[p] # "sent"
          /\ ToNotify(batch.db) = {} => (Notified = {} /\ ~batch.ret)
          /\ batch.ret <=>
                \A p \in batch.mapping :
                    batch.db[p] = "ok" /\ batch.notify[p] = "ok"

\* C33 witness: prepare.py's function has returned False for three pods: the
\* DB update of p1 failed and p1 was not notified, p2 was notified with
\* success and the notification of p3 failed.
C33_Witness ==
    /\ batch.pc = "returned"
    /\ batch.script = "prepare"
    /\ batch.mapping = BatchPods
    /\ batch.db = [p \in BatchPods |-> IF p = "p1" THEN "failed" ELSE "ok"]
    /\ batch.notify = [p \in BatchPods |->
                          CASE p = "p1" -> "none" [] p = "p2" -> "ok" [] OTHER -> "failed"]
    /\ ~batch.ret

----------------------------------------------------------------------------
(* The experiment loop of orchestrator.py *)

\* The loop takes file i in this step.
Takes(i) == orch.pc = "next" /\ orch'.idx = i /\ orch.idx = i - 1

\* The ready barrier or the integrity check gives the file up in this step.
GivesUp == orch.pc \in {"ready", "details"} /\ orch'.pc = "next"

\* C34: in orchestrator.py a trigger is issued for a file only when the pod
\* count was found equal to the file's node count and the injection has
\* succeeded on every pod, and is issued when they have, the file being
\* skipped otherwise; the fresh Helm install is entered for a file exactly
\* when its node count differs from last_p2p_count; a failed ready barrier
\* and an integrity error set last_p2p_count to 0.
C34_TriggerAfterReadyAndInjection ==
    [][orch.script = "orchestrator" =>
          /\ \A i \in orch'.triggered \ orch.triggered :
                i = orch.idx /\ orch.matched /\ orch.injected
          /\ orch.pc = "tests" => orch.idx \in orch'.triggered
          /\ \A i \in DOMAIN orch.files :
                Takes(i) =>
                   (i \in orch'.reinstalls <=> orch.files[i] # orch.last_p2p_count)
          /\ GivesUp => orch'.last_p2p_count = 0]_vars

----------------------------------------------------------------------------
(* Teardown *)

\* What a list of teardown commands has attempted.
Attempted(teardown) == {teardown[i] : i \in DOMAIN teardown}

\* C35: when main has left its experiment loop and ended, the Helm release
\* uninstall and the cluster deletion have both been attempted.
C35_TeardownAttempted ==
    orch.pc = "done" =>
        Attempted(orch.teardown) = {"helm uninstall", "cluster delete"}

====
